---- MODULE Spec2Model ----
(***************************************************************************)
(* Model of the voice analysis service: the FastAPI boundary               *)
(* (src/api/main.py), the unified SenseVoice analyzer and its rich-output  *)
(* parser (src/src/sensevoice_analyzer.py) and the translation service     *)
(* (src/src/translator.py).                                                *)
(*                                                                         *)
(* Text is a sequence of one-character strings, so that the regular        *)
(* expressions, strip() and lower() of the code are computed character by  *)
(* character.  Probabilities are integers in hundredths (0.85 is 85).      *)
(***************************************************************************)
EXTENDS Integers, Sequences, FiniteSets, TLC

VARIABLES
    raw_output,     \* SpecAnalyzer: the text of the model's first result entry
    budget,         \* SpecAnalyzer: fragments the model may still add to it
    model_result,   \* SpecAnalyzer: what self._model.generate returned to analyze
    parsed,         \* SpecAnalyzer: the last call of _parse_sensevoice_output
    analysis,       \* SpecAnalyzer: what SenseVoiceAnalyzer.analyze returned
    f_call,         \* SpecFanout: the translator and the arguments of _translate_text
    f_ret,          \* SpecFanout: what the call of _translate_text did
    USE_SENSEVOICE,         \* Spec: configuration, api/main.py line 33
    ENABLE_TRANSLATION,     \* Spec: configuration, api/main.py line 34
    app_state,              \* Spec: "starting", "serving" or "startup_failed"
    unified_load_failed,    \* Spec: lifespan took its "Falling back" branch
    sensevoice_analyzer,    \* Spec: the four global handles of api/main.py,
    translator,             \*   each [handle, loaded]: handle is "not None",
    emotion_classifier,     \*   loaded is is_loaded()
    speech_transcriber,
    inflight,               \* Spec: the /analyze requests awaiting audio.read()
    last_response,          \* Spec: the response of the last request answered
    content_type,           \* SpecUpload: audio.content_type of the request
    parts_left,             \* SpecUpload: fragments that may still be added to it
    instance,               \* SpecSlots: the attributes load_model sets on each backend object
    built,                  \* SpecSlots: the models each backend object has built so far
    mode,                   \* SpecSlots: the branch the last evaluation of line 224 took
    task,                   \* SpecLoop: the requests the event loop is handling
    running,                \* SpecLoop: the request whose handler holds the event loop, 0 if none
    loading,                \* SpecLoop: the requests inside translator.load_model
    inside,                 \* SpecLoop: the requests inside a call of each backend
    src_lang,               \* SpecLoop: _tokenizer.src_lang of the translator
    loads_ok,               \* SpecLoop: the calls of translator.load_model that returned
    recording,              \* SpecRecorder: AudioRecorder.recording
    audio_data,             \* SpecRecorder: AudioRecorder.audio_data, the chunks appended
    _lock,                  \* SpecRecorder: the thread that holds AudioRecorder._lock
    _stream,                \* SpecRecorder: AudioRecorder._stream, 0 for None
    streams,                \* SpecRecorder: the state of every InputStream the recorder opened
    callback,               \* SpecRecorder: where the callback thread of each stream stands
    rpc,                    \* SpecRecorder: where the calling thread stands in start / stop
    api_calls,              \* SpecRecorder: the start_recording / stop_recording calls made
    delivered,              \* SpecRecorder: the chunks the streams have delivered
    session,                \* SpecRecorder: the start_recording calls that reset audio_data
    audio_array,            \* SpecRecorder: the local audio_array of stop_recording
    ret                     \* SpecRecorder: what the last stop_recording returned

avars == <<raw_output, budget, model_result, parsed, analysis>>

fvars == <<f_call, f_ret>>

svars == <<USE_SENSEVOICE, ENABLE_TRANSLATION, app_state, unified_load_failed,
           sensevoice_analyzer, translator, emotion_classifier, speech_transcriber,
           inflight, last_response>>

uvars == <<content_type, parts_left>>

bvars == <<instance, built, mode>>

cvars == <<task, running, loading, inside, src_lang, loads_ok>>

rvars == <<recording, audio_data, _lock, _stream, streams, callback, rpc,
           api_calls, delivered, session, audio_array, ret>>

vars == <<avars, fvars, svars, uvars, bvars, cvars, rvars>>

-----------------------------------------------------------------------------
(* Bounds *)

MaxChunks == 3

MaxTargets == 3

MaxInflight == 2

-----------------------------------------------------------------------------
(* Characters and the str methods the code uses *)

UpperSeq == << "A","B","C","D","E","F","G","H","I","J","K","L","M",
               "N","O","P","Q","R","S","T","U","V","W","X","Y","Z" >>

LowerSeq == << "a","b","c","d","e","f","g","h","i","j","k","l","m",
               "n","o","p","q","r","s","t","u","v","w","x","y","z" >>

Upper == { UpperSeq[i] : i \in 1..26 }

Whitespace == { " " }

\* every character that is not "|" : the class [^|]
NotBar == Upper \cup { LowerSeq[i] : i \in 1..26 } \cup Whitespace \cup { "<", ">" }

\* str.lower() on one character
lowerChar(c) ==
    IF c \in Upper THEN LowerSeq[CHOOSE i \in 1..26 : UpperSeq[i] = c] ELSE c

\* str.lower()
lower(s) == [ i \in 1..Len(s) |-> lowerChar(s[i]) ]

RECURSIVE lstrip(_)
lstrip(s) ==
    IF s # <<>> /\ Head(s) \in Whitespace THEN lstrip(Tail(s)) ELSE s

RECURSIVE rstrip(_)
rstrip(s) ==
    IF s # <<>> /\ s[Len(s)] \in Whitespace
    THEN rstrip(SubSeq(s, 1, Len(s) - 1)) ELSE s

\* str.strip()
strip(s) == rstrip(lstrip(s))

-----------------------------------------------------------------------------
(* Regular expressions of the parser: "<\|" CLASS+ "\|>" *)

\* length of the longest run of characters of class C that starts at s[i]
RECURSIVE RunLen(_, _, _)
RunLen(s, i, C) ==
    IF i <= Len(s) /\ s[i] \in C THEN 1 + RunLen(s, i + 1, C) ELSE 0

\* re.match of "<\|" C+ "\|>" at position i: the position after the match, or
\* 0 when there is none.  C never holds "|", so the run the engine takes is
\* the longest one: no shorter run can be followed by "|".
MatchEnd(s, i, C) ==
    IF i + 1 <= Len(s) /\ s[i] = "<" /\ s[i + 1] = "|"
    THEN LET n == RunLen(s, i + 2, C)
             j == i + 2 + n
         IN  IF n >= 1 /\ j + 1 <= Len(s) /\ s[j] = "|" /\ s[j + 1] = ">"
             THEN j + 2 ELSE 0
    ELSE 0

\* re.findall(r'<\|([A-Z]+)\|>', s) from position i: group 1 of the
\* non-overlapping matches, left to right
RECURSIVE findallFrom(_, _)
findallFrom(s, i) ==
    IF i > Len(s) THEN <<>>
    ELSE LET e == MatchEnd(s, i, Upper)
         IN  IF e > 0
             THEN << SubSeq(s, i + 2, e - 3) >> \o findallFrom(s, e)
             ELSE findallFrom(s, i + 1)

findall(s) == findallFrom(s, 1)

\* re.sub(r'<\|[^|]+\|>', '', s) from position i: one left-to-right pass
RECURSIVE subFrom(_, _)
subFrom(s, i) ==
    IF i > Len(s) THEN <<>>
    ELSE LET e == MatchEnd(s, i, NotBar)
         IN  IF e > 0 THEN subFrom(s, e)
             ELSE << s[i] >> \o subFrom(s, i + 1)

sub(s) == subFrom(s, 1)

-----------------------------------------------------------------------------
(* Capability registry of the unified analyzer *)

HAPPY     == << "H","A","P","P","Y" >>
SAD       == << "S","A","D" >>
ANGRY     == << "A","N","G","R","Y" >>
NEUTRAL   == << "N","E","U","T","R","A","L" >>
FEARFUL   == << "F","E","A","R","F","U","L" >>
DISGUSTED == << "D","I","S","G","U","S","T","E","D" >>
SURPRISED == << "S","U","R","P","R","I","S","E","D" >>
UNKNOWN   == << "U","N","K","N","O","W","N" >>

\* SenseVoiceAnalyzer.EMOTION_DISPLAY
EMOTION_DISPLAY ==
    [ k \in { HAPPY, SAD, ANGRY, NEUTRAL, FEARFUL, DISGUSTED, SURPRISED, UNKNOWN } |->
        CASE k = HAPPY     -> [label |-> << "H","a","p","p","y" >>, emoji |-> "U+1F60A", color |-> "#51cf66"]
          [] k = SAD       -> [label |-> << "S","a","d" >>, emoji |-> "U+1F622", color |-> "#748ffc"]
          [] k = ANGRY     -> [label |-> << "A","n","g","r","y" >>, emoji |-> "U+1F620", color |-> "#ff6b6b"]
          [] k = NEUTRAL   -> [label |-> << "N","e","u","t","r","a","l" >>, emoji |-> "U+1F610", color |-> "#868e96"]
          [] k = FEARFUL   -> [label |-> << "F","e","a","r","f","u","l" >>, emoji |-> "U+1F628", color |-> "#9775fa"]
          [] k = DISGUSTED -> [label |-> << "D","i","s","g","u","s","t" >>, emoji |-> "U+1F922", color |-> "#a9e34b"]
          [] k = SURPRISED -> [label |-> << "S","u","r","p","r","i","s","e","d" >>, emoji |-> "U+1F632", color |-> "#ffd43b"]
          [] k = UNKNOWN   -> [label |-> << "U","n","k","n","o","w","n" >>, emoji |-> "U+1F3AD", color |-> "#adb5bd"] ]

\* SenseVoiceAnalyzer.LANGUAGE_MAP
LANGUAGE_MAP ==
    [ c \in { "zh", "en", "ja", "ko", "yue", "auto" } |->
        CASE c = "zh"   -> "Chinese"
          [] c = "en"   -> "English"
          [] c = "ja"   -> "Japanese"
          [] c = "ko"   -> "Korean"
          [] c = "yue"  -> "Cantonese"
          [] c = "auto" -> "Auto-detect" ]

\* SenseVoiceAnalyzer.AUDIO_EVENTS
AUDIO_EVENTS ==
    { << "b","g","m" >>,
      << "a","p","p","l","a","u","s","e" >>,
      << "l","a","u","g","h","t","e","r" >>,
      << "c","r","y","i","n","g" >>,
      << "c","o","u","g","h","i","n","g" >>,
      << "s","n","e","e","z","i","n","g" >> }

\* the literals 0.85 and 0.05 of analyze, and 0.0 of _empty_result, in hundredths
HIGH_CONFIDENCE == 85

RESIDUAL == 5

EMPTY_CONFIDENCE == 0

-----------------------------------------------------------------------------
(* SenseVoiceAnalyzer._parse_sensevoice_output *)

\* mutant: the first emotion tag wins, later ones are ignored
ClassifyMatchFirstWins(match, st) ==
    IF match \in DOMAIN EMOTION_DISPLAY
    THEN IF st.emotion = NEUTRAL THEN [st EXCEPT !.emotion = match] ELSE st
    ELSE IF lower(match) \in AUDIO_EVENTS
         THEN [st EXCEPT !.audio_events = Append(@, lower(match))]
         ELSE st

\* mutant: an event already in the list is not appended again
ClassifyMatchNoDuplicates(match, st) ==
    IF match \in DOMAIN EMOTION_DISPLAY
    THEN [st EXCEPT !.emotion = match]
    ELSE IF lower(match) \in AUDIO_EVENTS
         THEN IF \E k \in 1..Len(st.audio_events) : st.audio_events[k] = lower(match)
              THEN st
              ELSE [st EXCEPT !.audio_events = Append(@, lower(match))]
         ELSE st

\* the loop over the matches: the classification of one scanned identifier
ClassifyMatch(match, st) ==
    IF match \in DOMAIN EMOTION_DISPLAY
    THEN [st EXCEPT !.emotion = match]
    ELSE IF lower(match) \in AUDIO_EVENTS
         THEN [st EXCEPT !.audio_events = Append(@, lower(match))]
         ELSE st

RECURSIVE ClassifyAll(_, _)
ClassifyAll(matches, st) ==
    IF matches = <<>> THEN st
    ELSE ClassifyAll(Tail(matches), ClassifyMatch(Head(matches), st))

\* clean_text = re.sub(...).strip()
CleanText(raw_text) == strip(sub(raw_text))

_parse_sensevoice_output(raw_text) ==
    LET st == ClassifyAll(findall(raw_text),
                          [emotion |-> NEUTRAL, audio_events |-> <<>>])
    IN  [ clean_text   |-> CleanText(raw_text),
          emotion      |-> st.emotion,
          audio_events |-> st.audio_events ]

-----------------------------------------------------------------------------
(* SenseVoiceAnalyzer.analyze and _empty_result *)

NoLanguage == "<absent>"    \* result[0] has no "language" key

_empty_result ==
    [ transcription |-> [ text          |-> <<>>,
                          language      |-> "unknown",
                          language_name |-> "Unknown" ],
      emotion       |-> [ emotion    |-> << "N","e","u","t","r","a","l" >>,
                          emoji      |-> "U+1F610",
                          color      |-> "#868e96",
                          confidence |-> EMPTY_CONFIDENCE,
                          raw_label  |-> lower(NEUTRAL),
                          all_probabilities |-> <<>> ],
      audio_events  |-> <<>>,
      raw_output    |-> <<>> ]

\* mutant: the line all_probs[emotion] = 0.85 is missing
AllProbabilitiesNoOverride(emotion) ==
    LET keys == (DOMAIN EMOTION_DISPLAY) \ { UNKNOWN }
    IN  [ k \in { lower(e) : e \in keys } |-> RESIDUAL ]

\* mutant: the distribution never gets a key for the UNKNOWN sentinel
AllProbabilitiesSevenKeys(emotion) ==
    LET keys == (DOMAIN EMOTION_DISPLAY) \ { UNKNOWN }
    IN  [ k \in { lower(e) : e \in keys } |->
            IF k = lower(emotion) THEN HIGH_CONFIDENCE ELSE RESIDUAL ]

\* all_probs = {e: 0.05 for e in EMOTION_DISPLAY if e != "UNKNOWN"};
\* all_probs[emotion] = 0.85; then the keys are lowercased
AllProbabilities(emotion) ==
    LET keys      == ((DOMAIN EMOTION_DISPLAY) \ { UNKNOWN }) \cup { emotion }
        all_probs == [ e \in keys |-> IF e = emotion THEN HIGH_CONFIDENCE ELSE RESIDUAL ]
    IN  [ k \in { lower(e) : e \in keys } |->
            all_probs[CHOOSE e \in keys : lower(e) = k] ]

\* the confidence analyze reports
Confidence == HIGH_CONFIDENCE

\* result: what self._model.generate returned, a sequence of entries
\* [text, language]; processed_text: what rich_transcription_postprocess
\* made of the first entry's text; language: the caller's hint
analyze(result, processed_text, language) ==
    IF result = <<>> THEN _empty_result
    ELSE
      LET p             == _parse_sensevoice_output(processed_text)
          emotion_info  == IF p.emotion \in DOMAIN EMOTION_DISPLAY
                           THEN EMOTION_DISPLAY[p.emotion]
                           ELSE EMOTION_DISPLAY[NEUTRAL]
          reported      == IF result[1].language = NoLanguage
                           THEN language ELSE result[1].language
          detected_lang == IF reported = "auto" THEN "en" ELSE reported
      IN  [ transcription |-> [ text          |-> p.clean_text,
                                language      |-> detected_lang,
                                language_name |->
                                    IF detected_lang \in DOMAIN LANGUAGE_MAP
                                    THEN LANGUAGE_MAP[detected_lang]
                                    ELSE detected_lang ],
            emotion       |-> [ emotion    |-> emotion_info.label,
                                emoji      |-> emotion_info.emoji,
                                color      |-> emotion_info.color,
                                confidence |-> Confidence,
                                raw_label  |-> lower(p.emotion),
                                all_probabilities |-> AllProbabilities(p.emotion) ],
            audio_events  |-> p.audio_events,
            raw_output    |-> result[1].text ]

\* what rich_transcription_postprocess of funasr may hand back: that library
\* is not part of the repository, so its output is some text
PostprocessSamples == { << "<","|","A","N","G","R","Y","|",">"," ","o","h" >> }

\* processed_text: raw_output itself when funasr.utils is missing (the
\* identity lambda) or the call raises, else the library's output
PostprocessOutcomes(raw) == { raw } \cup PostprocessSamples

-----------------------------------------------------------------------------
(* TranslationService: the language registry *)

\* one row per entry of LANGUAGE_NAMES: code, LANGUAGE_NAMES[code], the
\* country letters of LANGUAGE_FLAGS[code], LANGUAGE_CODES[code]
LanguageTable ==
    <<
       << "en", "English", "GB", "eng_Latn" >>,
       << "es", "Spanish", "ES", "spa_Latn" >>,
       << "fr", "French", "FR", "fra_Latn" >>,
       << "de", "German", "DE", "deu_Latn" >>,
       << "it", "Italian", "IT", "ita_Latn" >>,
       << "pt", "Portuguese", "PT", "por_Latn" >>,
       << "ru", "Russian", "RU", "rus_Cyrl" >>,
       << "zh", "Chinese (Simplified)", "CN", "zho_Hans" >>,
       << "zh-TW", "Chinese (Traditional)", "TW", "zho_Hant" >>,
       << "ja", "Japanese", "JP", "jpn_Jpan" >>,
       << "ko", "Korean", "KR", "kor_Hang" >>,
       << "ar", "Arabic", "SA", "arb_Arab" >>,
       << "hi", "Hindi", "IN", "hin_Deva" >>,
       << "bn", "Bengali", "BD", "ben_Beng" >>,
       << "vi", "Vietnamese", "VN", "vie_Latn" >>,
       << "th", "Thai", "TH", "tha_Thai" >>,
       << "tr", "Turkish", "TR", "tur_Latn" >>,
       << "pl", "Polish", "PL", "pol_Latn" >>,
       << "nl", "Dutch", "NL", "nld_Latn" >>,
       << "sv", "Swedish", "SE", "swe_Latn" >>,
       << "da", "Danish", "DK", "dan_Latn" >>,
       << "fi", "Finnish", "FI", "fin_Latn" >>,
       << "no", "Norwegian", "NO", "nob_Latn" >>,
       << "el", "Greek", "GR", "ell_Grek" >>,
       << "he", "Hebrew", "IL", "heb_Hebr" >>,
       << "id", "Indonesian", "ID", "ind_Latn" >>,
       << "ms", "Malay", "MY", "zsm_Latn" >>,
       << "tl", "Filipino", "PH", "tgl_Latn" >>,
       << "uk", "Ukrainian", "UA", "ukr_Cyrl" >>,
       << "cs", "Czech", "CZ", "ces_Latn" >>,
       << "ro", "Romanian", "RO", "ron_Latn" >>,
       << "hu", "Hungarian", "HU", "hun_Latn" >>,
       << "ta", "Tamil", "IN", "tam_Taml" >>,
       << "te", "Telugu", "IN", "tel_Telu" >>,
       << "mr", "Marathi", "IN", "mar_Deva" >>,
       << "gu", "Gujarati", "IN", "guj_Gujr" >>,
       << "kn", "Kannada", "IN", "kan_Knda" >>,
       << "ml", "Malayalam", "IN", "mal_Mlym" >>,
       << "pa", "Punjabi", "IN", "pan_Guru" >>,
       << "ur", "Urdu", "PK", "urd_Arab" >>,
       << "fa", "Persian", "IR", "pes_Arab" >>,
       << "sw", "Swahili", "KE", "swh_Latn" >>
    >>

LanguageRow(code) ==
    LanguageTable[CHOOSE i \in 1..Len(LanguageTable) : LanguageTable[i][1] = code]

LANGUAGE_NAMES == { LanguageTable[i][1] : i \in 1..Len(LanguageTable) }

PLACEHOLDER_FLAG == "white-flag"

DEFAULT_NLLB_CODE == "eng_Latn"

\* LANGUAGE_CODES.get(lang, "eng_Latn")
NllbCode(lang) ==
    IF lang \in LANGUAGE_NAMES THEN LanguageRow(lang)[4] ELSE DEFAULT_NLLB_CODE

\* TranslationService.get_supported_languages, keyed by code as
\* _translate_text keys it (lang_info)
lang_info ==
    [ code \in LANGUAGE_NAMES |->
        [ code |-> code, name |-> LanguageRow(code)[2],
          flag |-> LanguageRow(code)[3], nllb_code |-> LanguageRow(code)[4] ] ]

\* TranslationService.translate, when it does not raise: the text the NLLB
\* model decodes is a value determined by the text and the two NLLB codes
translate(text, source_lang, target_lang) ==
    [ source_text     |-> text,
      source_language |-> source_lang,
      target_language |-> target_lang,
      translated_text |-> << NllbCode(source_lang), NllbCode(target_lang), text >> ]

-----------------------------------------------------------------------------
(* _translate_text of api/main.py *)

\* mutant: an unknown target code is shown under a fixed display name
TranslationItemFixedName(target_lang, result) ==
    [ language_code |-> target_lang,
      language_name |-> IF target_lang \in DOMAIN lang_info
                        THEN lang_info[target_lang].name ELSE "Unknown",
      flag          |-> IF target_lang \in DOMAIN lang_info
                        THEN lang_info[target_lang].flag ELSE PLACEHOLDER_FLAG,
      text          |-> result.translated_text ]

\* TranslationItem(language_code, language_name, flag, text)
TranslationItem(target_lang, result) ==
    [ language_code |-> target_lang,
      language_name |-> IF target_lang \in DOMAIN lang_info
                        THEN lang_info[target_lang].name ELSE target_lang,
      flag          |-> IF target_lang \in DOMAIN lang_info
                        THEN lang_info[target_lang].flag ELSE PLACEHOLDER_FLAG,
      text          |-> result.translated_text ]

\* mutant: the source language is translated to like any other target
SkipTargetNever(target_lang, source_lang) == FALSE

\* the guard of the loop body: "if target_lang == source_lang: continue"
SkipTarget(target_lang, source_lang) == target_lang = source_lang

\* mutant: no try / except around the translate call
TranslateTargetUnguarded(text, source_lang, target_langs, fails, i, acc) ==
    LET called == [acc EXCEPT !.calls = Append(@, << i, target_langs[i] >>)]
    IN  IF i \in fails
        THEN [called EXCEPT !.raised = TRUE]
        ELSE [called EXCEPT !.translations =
                 Append(@, TranslationItem(target_langs[i],
                                           translate(text, source_lang, target_langs[i])))]

\* mutant: the item is put at the front of the list (insert(0, ...))
TranslateTargetPrepend(text, source_lang, target_langs, fails, i, acc) ==
    LET called == [acc EXCEPT !.calls = Append(@, << i, target_langs[i] >>)]
    IN  IF i \in fails
        THEN called
        ELSE [called EXCEPT !.translations =
                 << TranslationItem(target_langs[i],
                                    translate(text, source_lang, target_langs[i])) >> \o @]

\* the try / except of the loop body for the target at position i; fails
\* holds the positions whose translate call raises.  acc.calls logs the
\* translate calls made, as <<position, target>>.
TranslateTarget(text, source_lang, target_langs, fails, i, acc) ==
    LET called == [acc EXCEPT !.calls = Append(@, << i, target_langs[i] >>)]
    IN  IF i \in fails
        THEN called      \* except Exception: print(...)
        ELSE [called EXCEPT !.translations =
                 Append(@, TranslationItem(target_langs[i],
                                           translate(text, source_lang, target_langs[i])))]

\* the for loop from position i on; an exception that leaves the body ends it
RECURSIVE FanOutLoop(_, _, _, _, _, _)
FanOutLoop(text, source_lang, target_langs, fails, i, acc) ==
    IF i > Len(target_langs) \/ acc.raised THEN acc
    ELSE FanOutLoop(text, source_lang, target_langs, fails, i + 1,
                    IF SkipTarget(target_langs[i], source_lang) THEN acc
                    ELSE TranslateTarget(text, source_lang, target_langs, fails, i, acc))

\* mutant: "not text" in place of "not text.strip()"
FanOutGuardNoStrip(tr, text) == ~tr.handle \/ text = <<>>

\* "if not translator or not text.strip(): return []"
FanOutGuard(tr, text) == ~tr.handle \/ strip(text) = <<>>

\* tr: the global translator, [handle, loaded]; load_ok: whether a call of
\* load_model succeeds; fails: the positions whose translate call raises.
\* The outcome: whether an exception left the function, the list returned,
\* the translator afterwards, the load_model calls and the translate calls.
_translate_text(tr, text, source_lang, target_langs, load_ok, fails) ==
    LET start == [ raised |-> FALSE, translations |-> <<>>, translator |-> tr,
                   loads |-> 0, calls |-> <<>> ]
    IN  IF FanOutGuard(tr, text) THEN start
        ELSE IF ~tr.loaded /\ ~load_ok
             THEN [start EXCEPT !.raised = TRUE, !.loads = 1]
        ELSE FanOutLoop(text, source_lang, target_langs, fails, 1,
                        [start EXCEPT !.translator.loaded = TRUE,
                                      !.loads = IF tr.loaded THEN 0 ELSE 1])

-----------------------------------------------------------------------------
(* The legacy pair: EmotionClassifier.classify and SpeechTranscriber.transcribe *)

upperChar(c) ==
    IF \E i \in 1..26 : LowerSeq[i] = c
    THEN UpperSeq[CHOOSE i \in 1..26 : LowerSeq[i] = c] ELSE c

\* str.capitalize()
capitalize(s) ==
    [ i \in 1..Len(s) |-> IF i = 1 THEN upperChar(s[i]) ELSE lowerChar(s[i]) ]

\* EmotionClassifier.EMOTION_DISPLAY
CLASSIFIER_EMOTION_DISPLAY ==
    [ k \in { << "a","n","g","r","y" >>, << "d","i","s","g","u","s","t" >>, << "f","e","a","r","f","u","l" >>, << "h","a","p","p","y" >>, << "n","e","u","t","r","a","l" >>, << "s","a","d" >>, << "s","u","r","p","r","i","s","e","d" >> } |->
        CASE k = << "a","n","g","r","y" >>     -> [label |-> << "A","n","g","r","y" >>, emoji |-> "U+1F620", color |-> "#ff6b6b"]
          [] k = << "d","i","s","g","u","s","t" >>   -> [label |-> << "D","i","s","g","u","s","t" >>, emoji |-> "U+1F922", color |-> "#a9e34b"]
          [] k = << "f","e","a","r","f","u","l" >>   -> [label |-> << "F","e","a","r","f","u","l" >>, emoji |-> "U+1F628", color |-> "#9775fa"]
          [] k = << "h","a","p","p","y" >>     -> [label |-> << "H","a","p","p","y" >>, emoji |-> "U+1F60A", color |-> "#51cf66"]
          [] k = << "n","e","u","t","r","a","l" >>   -> [label |-> << "N","e","u","t","r","a","l" >>, emoji |-> "U+1F610", color |-> "#868e96"]
          [] k = << "s","a","d" >>       -> [label |-> << "S","a","d" >>, emoji |-> "U+1F622", color |-> "#748ffc"]
          [] k = << "s","u","r","p","r","i","s","e","d" >> -> [label |-> << "S","u","r","p","r","i","s","e","d" >>, emoji |-> "U+1F632", color |-> "#ffd43b"] ]

\* classify, when the model does not raise.  predicted: the label id2label
\* gives the argmax; probs: the softmax, by id2label label, in hundredths
classify(predicted, probs) ==
    LET raw_label    == lower(predicted)
        display_info == IF raw_label \in DOMAIN CLASSIFIER_EMOTION_DISPLAY
                        THEN CLASSIFIER_EMOTION_DISPLAY[raw_label]
                        ELSE [label |-> capitalize(raw_label), emoji |-> "U+1F3AD",
                              color |-> "#868e96"]
    IN  [ emotion    |-> display_info.label,
          emoji      |-> display_info.emoji,
          color      |-> display_info.color,
          confidence |-> probs[predicted],
          raw_label  |-> raw_label,
          all_probabilities |-> probs ]

\* transcribe, when Whisper does not raise: decoded is result.text
transcribe(decoded, language) == [ text |-> strip(decoded), language |-> language ]

-----------------------------------------------------------------------------
(* api/main.py: the handles, lifespan and the request handlers *)

None == <<>>

Some(x) == << x >>

NoHandle == [handle |-> FALSE, loaded |-> FALSE]

\* "sub in s" of Python
Contains(s, part) ==
    \E i \in 1..(Len(s) - Len(part) + 1) : SubSeq(s, i, i + Len(part) - 1) = part

\* mutant: any content type that is given is accepted
ValidContentTypeIfGiven(ct) == ct # <<>>

\* mutant: "ogg" is looked for before "webm"
SuffixOggFirst(ct) ==
    IF Contains(ct, << "o","g","g" >>) THEN ".ogg"
    ELSE IF Contains(ct, << "w","e","b","m" >>) THEN ".webm"
    ELSE IF Contains(ct, << "m","p","e","g" >>) \/ Contains(ct, << "m","p","3" >>) THEN ".mp3"
    ELSE ".wav"

\* line 201: the content type names audio or octet-stream
ValidContentType(ct) ==
    Contains(ct, << "a","u","d","i","o" >>) \/ Contains(ct, << "o","c","t","e","t","-","s","t","r","e","a","m" >>)

\* lines 207-214
Suffix(ct) ==
    IF Contains(ct, << "w","e","b","m" >>) THEN ".webm"
    ELSE IF Contains(ct, << "o","g","g" >>) THEN ".ogg"
    ELSE IF Contains(ct, << "m","p","e","g" >>) \/ Contains(ct, << "m","p","3" >>) THEN ".mp3"
    ELSE ".wav"

\* str.split(",")
RECURSIVE SplitComma(_)
SplitComma(s) ==
    IF \E i \in 1..Len(s) : s[i] = ","
    THEN LET i == CHOOSE k \in 1..Len(s) : s[k] = "," /\ \A m \in 1..(k - 1) : s[m] # ","
         IN  << SubSeq(s, 1, i - 1) >> \o SplitComma(SubSeq(s, i + 1, Len(s)))
    ELSE << s >>

\* a language code written as characters, as the value the registry keys
\* and the backends use
CodeOf(chars) ==
    CASE chars = << "e","n" >> -> "en"
      [] chars = << "e","s" >> -> "es"
      [] chars = << "f","r" >> -> "fr"
      [] chars = << "x","x" >> -> "xx"
      [] OTHER -> ""

\* line 252: [lang.strip() for lang in translate_to.split(",")]
TargetLangsOf(translate_to) ==
    LET parts == SplitComma(translate_to)
    IN  [ i \in 1..Len(parts) |-> CodeOf(strip(parts[i])) ]

\* the response of a handler.  status is the HTTP status; path is the branch
\* of analyze_audio that produced the analysis; the Optional fields are None
\* or Some(value); tmp_left tells whether the request's temporary file still
\* exists when the response leaves; calls lists the backend calls made.
Response(endpoint, status, detail) ==
    [ endpoint |-> endpoint, status |-> status, detail |-> detail, path |-> "none",
      transcription |-> None, emotion |-> None, audio_events |-> None,
      translations |-> None, suffix |-> "", tmp_left |-> FALSE, calls |-> <<>> ]

\* mutant: the legacy branch answers with an empty list of events
LegacyAudioEventsEmptyList == Some(<<>>)

\* line 247: audio_events = None
LegacyAudioEvents == None

\* line 233: audio_events = result.get("audio_events", [])
UnifiedAudioEvents(result) == Some(result.audio_events)

\* line 224: the unified branch is taken
UnifiedActive ==
    USE_SENSEVOICE /\ sensevoice_analyzer.handle /\ sensevoice_analyzer.loaded

\* lines 225-233: the analysis of the unified branch
UnifiedAnalysis(result) ==
    [ path          |-> "unified",
      transcription |-> [ text          |-> result.transcription.text,
                          language      |-> result.transcription.language,
                          language_name |-> Some(result.transcription.language_name) ],
      emotion       |-> result.emotion,
      audio_events  |-> UnifiedAudioEvents(result),
      calls         |-> << "sensevoice_analyzer.analyze" >> ]

\* lines 239-247: the analysis of the legacy branch
LegacyAnalysis(trans_result, emo_result) ==
    [ path          |-> "legacy",
      transcription |-> [ text          |-> trans_result.text,
                          language      |-> trans_result.language,
                          language_name |-> None ],
      emotion       |-> emo_result,
      audio_events  |-> LegacyAudioEvents,
      calls         |-> << "speech_transcriber.transcribe", "emotion_classifier.classify" >> ]

\* the backend calls a fan-out made, in order
FanOutCalls(f) ==
    (IF f.loads > 0 THEN << "translator.load_model" >> ELSE <<>>)
      \o [ c \in 1..Len(f.calls) |-> "translator.translate" ]

\* mutant: the failed backend call is made a second time
AnalysisFailedRetried(detail, calls) ==
    [ Response("analyze", 500, detail) EXCEPT !.calls = calls \o calls ]

\* line 267: every exception of the try block becomes a 500
AnalysisFailed(detail, calls) ==
    [ Response("analyze", 500, detail) EXCEPT !.calls = calls ]

\* whether analyze_audio translates: "if translate_to and translator"
Translates(rq) ==
    rq.translate_to # None /\ rq.translate_to[1] # <<>> /\ translator.handle

\* lines 259-264: the successful response
Analyzed(a, translations, calls) ==
    [ Response("analyze", 200, "") EXCEPT
        !.path = a.path, !.transcription = Some(a.transcription),
        !.emotion = Some(a.emotion), !.audio_events = a.audio_events,
        !.translations = translations, !.calls = calls ]

\* lines 249-264: the optional translations, then the response.  The outcome
\* is the response and the translator as the request leaves it.
Respond(rq, a, load_ok, fails) ==
    IF Translates(rq)
    THEN LET f == _translate_text(translator, a.transcription.text,
                                  a.transcription.language,
                                  TargetLangsOf(rq.translate_to[1]), load_ok, fails)
         IN  [ translator |-> f.translator,
               response   |->
                 IF f.raised
                 THEN AnalysisFailed("Analysis failed: translator load",
                                     a.calls \o FanOutCalls(f))
                 ELSE Analyzed(a, Some(f.translations), a.calls \o FanOutCalls(f)) ]
    ELSE [ translator |-> translator, response |-> Analyzed(a, None, a.calls) ]

\* the outcomes of load_model that matter: none when the model is loaded
LoadOutcomes(tr) == IF tr.loaded THEN { TRUE } ELSE BOOLEAN

\* TranslationService.load_model, lines 181-183, when it raises: before _model
\* is assigned the translator stays not loaded; in to(device), after the
\* assignment of line 182, is_loaded() answers True from then on
AfterLoadRaised(tr) == { tr, [tr EXCEPT !.loaded = TRUE] }

\* the sets of positions whose translate call may raise: those translated to
FailureSets(source_lang, target_langs) ==
    SUBSET { i \in 1..Len(target_langs) : target_langs[i] # source_lang }

\* every way the rest of the request can go once the analysis a is there
Responses(rq, a) ==
    IF Translates(rq)
    THEN UNION { LET out == Respond(rq, a, load_ok, fails)
                 IN  IF out.response.status = 200 THEN { out }
                     ELSE { [out EXCEPT !.translator = tr] :
                              tr \in AfterLoadRaised(out.translator) } :
                   load_ok \in LoadOutcomes(translator),
                   fails \in FailureSets(a.transcription.language,
                                         TargetLangsOf(rq.translate_to[1])) }
    ELSE { Respond(rq, a, TRUE, {}) }

\* a request that ends in the except branch of line 266
Failed(detail, calls, tmp_left) ==
    [ translator |-> translator,
      response   |-> [ AnalysisFailed(detail, calls) EXCEPT !.tmp_left = tmp_left ] ]

\* the request inputs and backend outcomes tried
ContentTypes ==
    { <<>>, << "t","e","x","t","/","p","l","a","i","n" >>, << "a","u","d","i","o","/","w","a","v" >>, << "a","u","d","i","o","/","w","e","b","m",";","c","o","d","e","c","s","=","o","p","u","s" >>,
      << "a","p","p","l","i","c","a","t","i","o","n","/","o","c","t","e","t","-","s","t","r","e","a","m" >> }

TranslateTos == { None, Some(<<>>), Some(<< "f","r",","," ","e","n" >>) }

\* what self._model.generate returns in the service: no entry, or one entry
GenerateResults ==
    { <<>>,
      << [ text |-> << "<","|","H","A","P","P","Y","|",">","H","i","<","|","L","A","U","G","H","T","E","R","|",">" >>, language |-> NoLanguage ] >>,
      << [ text |-> << "<","|","S","A","D","|",">" >>, language |-> "es" ] >> }

\* what Whisper decodes, with the language it detects
Transcripts == { [ decoded |-> << " ","H","i" >>, language |-> "en" ],
                 [ decoded |-> << " " >>, language |-> "es" ] }

\* what the classifier model predicts: a registry label, and one that the
\* registry does not hold
Predictions ==
    { [ predicted |-> << "h","a","p","p","y" >>, probs |-> (<< "h","a","p","p","y" >> :> 90) @@ (<< "s","a","d" >> :> 10) ],
      [ predicted |-> << "C","a","l","m" >>,  probs |-> (<< "C","a","l","m" >> :> 60) @@ (<< "h","a","p","p","y" >> :> 40) ] }

ServiceTexts == { << "H","i" >>, << " " >> }

ServiceTargets == { << "es", "es" >>, << "en", "fr", "xx" >> }

\* the analyses the unified backend may return to the handler
UnifiedAnalyses(language) ==
    { UnifiedAnalysis(analyze(result, pt, language)) :
        result \in GenerateResults, pt \in PostprocessSamples }
    \cup { UnifiedAnalysis(analyze(result, result[1].text, language)) :
             result \in GenerateResults \ { <<>> } }

\* the language hints of the requests tried
RequestLanguages == { "auto" }

UnifiedAnalysesBy == [ language \in RequestLanguages |-> UnifiedAnalyses(language) ]

\* the analyses the legacy pair may return to the handler
LegacyAnalyses ==
    { LegacyAnalysis(transcribe(t.decoded, t.language), classify(c.predicted, c.probs)) :
        t \in Transcripts, c \in Predictions }

Slots == 1..MaxInflight

UIdle ==
    /\ content_type = <<>>
    /\ parts_left = 0

BIdle ==
    /\ instance = <<>>
    /\ built = <<>>
    /\ mode = ""

CIdle ==
    /\ task = <<>>
    /\ running = 0
    /\ loading = {}
    /\ inside = <<>>
    /\ src_lang = ""
    /\ loads_ok = 0

\* no AudioRecorder exists
RIdle ==
    /\ recording = FALSE
    /\ audio_data = <<>>
    /\ _lock = <<>>
    /\ _stream = 0
    /\ streams = <<>>
    /\ callback = <<>>
    /\ rpc = ""
    /\ api_calls = 0
    /\ delivered = 0
    /\ session = 0
    /\ audio_array = <<>>
    /\ ret = <<>>

SIdle ==
    /\ USE_SENSEVOICE = TRUE
    /\ ENABLE_TRANSLATION = TRUE
    /\ app_state = "starting"
    /\ unified_load_failed = FALSE
    /\ sensevoice_analyzer = NoHandle
    /\ translator = NoHandle
    /\ emotion_classifier = NoHandle
    /\ speech_transcriber = NoHandle
    /\ inflight = [ r \in Slots |-> None ]
    /\ last_response = None

Init ==
    /\ USE_SENSEVOICE \in BOOLEAN
    /\ ENABLE_TRANSLATION \in BOOLEAN
    /\ app_state = "starting"
    /\ unified_load_failed = FALSE
    /\ sensevoice_analyzer = NoHandle
    /\ translator = NoHandle
    /\ emotion_classifier = NoHandle
    /\ speech_transcriber = NoHandle
    /\ inflight = [ r \in Slots |-> None ]
    /\ last_response = None
    /\ raw_output = <<>> /\ budget = 0 /\ model_result = <<>>
    /\ parsed = <<>> /\ analysis = <<>>
    /\ f_call = <<>> /\ f_ret = <<>>
    /\ UIdle
    /\ BIdle
    /\ CIdle
    /\ RIdle

\* lifespan, lines 47-90: each load_model call may raise
Lifespan ==
    /\ app_state = "starting"
    /\ \E sv_ok, ec_ok, st_ok, tr_ok \in BOOLEAN :
         LET legacy_raised == ~USE_SENSEVOICE /\ (~ec_ok \/ ~st_ok)
         IN  /\ sensevoice_analyzer' =
                   IF USE_SENSEVOICE THEN [handle |-> TRUE, loaded |-> sv_ok]
                   ELSE sensevoice_analyzer
             /\ unified_load_failed' = (USE_SENSEVOICE /\ ~sv_ok)
             /\ emotion_classifier' =
                   IF USE_SENSEVOICE THEN emotion_classifier
                   ELSE [handle |-> TRUE, loaded |-> ec_ok]
             /\ speech_transcriber' =
                   IF ~USE_SENSEVOICE /\ ec_ok THEN [handle |-> TRUE, loaded |-> st_ok]
                   ELSE speech_transcriber
             /\ translator' =
                   IF ENABLE_TRANSLATION /\ ~legacy_raised
                   THEN [handle |-> TRUE, loaded |-> tr_ok] ELSE translator
             /\ app_state' = IF legacy_raised THEN "startup_failed" ELSE "serving"
    /\ UNCHANGED <<USE_SENSEVOICE, ENABLE_TRANSLATION, inflight, last_response, avars, fvars, uvars, bvars, cvars, rvars>>

\* analyze_audio up to "await audio.read()", lines 199-219, for one request:
\* the content type is checked, the temporary file is created (created tells
\* whether NamedTemporaryFile succeeds), the handler waits for the upload
Admit(slot, ct, translate_to, language, created) ==
    IF ~ValidContentType(ct)
    THEN /\ last_response' = Some(Response("analyze", 400, "Invalid file type"))
         /\ UNCHANGED inflight
    ELSE IF ~created
    THEN /\ last_response' = Some(AnalysisFailed("Analysis failed: tempfile", <<>>))
         /\ UNCHANGED inflight
    ELSE /\ inflight' = [inflight EXCEPT ![slot] =
                           Some([ suffix |-> Suffix(ct), language |-> language,
                                  translate_to |-> translate_to ])]
         /\ UNCHANGED last_response

AnalyzeStart(slot) ==
    /\ app_state = "serving"
    /\ inflight[slot] = None
    /\ \E ct \in ContentTypes, translate_to \in TranslateTos,
          language \in RequestLanguages, created \in BOOLEAN :
         Admit(slot, ct, translate_to, language, created)
    /\ UNCHANGED <<USE_SENSEVOICE, ENABLE_TRANSLATION, app_state, unified_load_failed,
                   sensevoice_analyzer, translator, emotion_classifier,
                   speech_transcriber, avars, fvars, uvars, bvars, cvars, rvars>>

\* the answer of an /analyze request and what it leaves behind
AnalyzeDone(slot, out) ==
    /\ last_response' = Some([out.response EXCEPT !.suffix = inflight[slot][1].suffix])
    /\ translator' = out.translator
    /\ inflight' = [inflight EXCEPT ![slot] = None]

\* analyze_audio from the return of audio.read() on, lines 219-274: every
\* way the handler can go on
AnalyzeOutcomes(rq) ==
    \* read or write raised: tmp_path was never assigned, nothing is unlinked
    { Failed("Analysis failed: upload", <<>>, TRUE) }
    \cup
    ( IF UnifiedActive
      THEN { Failed("Analysis failed: inference", << "sensevoice_analyzer.analyze" >>, FALSE) }
           \cup UNION { Responses(rq, a) : a \in UnifiedAnalysesBy[rq.language] }
      ELSE IF ~emotion_classifier.handle \/ ~speech_transcriber.handle
      THEN \* the HTTPException(503) of line 237 is caught at line 266
           { Failed("Analysis failed: 503: Models not loaded", <<>>, FALSE) }
      ELSE { Failed("Analysis failed: inference",
                    << "speech_transcriber.transcribe" >>, FALSE),
             Failed("Analysis failed: inference",
                    << "speech_transcriber.transcribe", "emotion_classifier.classify" >>,
                    FALSE) }
           \cup UNION { Responses(rq, a) : a \in LegacyAnalyses } )

AnalyzeResume(slot) ==
    /\ inflight[slot] # None
    /\ \E out \in AnalyzeOutcomes(inflight[slot][1]) : AnalyzeDone(slot, out)
    /\ UNCHANGED <<USE_SENSEVOICE, ENABLE_TRANSLATION, app_state, unified_load_failed,
                   sensevoice_analyzer, emotion_classifier, speech_transcriber,
                   avars, fvars, uvars, bvars, cvars, rvars>>

\* mutant: the failed load answered as a server error
TranslatorLoadFailedAsServerError ==
    [ Response("translate", 500, "Failed to load translator")
        EXCEPT !.calls = << "translator.load_model" >> ]

\* mutant: a failed on-demand load is tried a second time before the answer
TranslatorLoadFailedRetried ==
    [ Response("translate", 503, "Failed to load translator")
        EXCEPT !.calls = << "translator.load_model", "translator.load_model" >> ]

\* lines 290-293: the on-demand load raised
TranslatorLoadFailed ==
    [ Response("translate", 503, "Failed to load translator")
        EXCEPT !.calls = << "translator.load_model" >> ]

\* translate_text, lines 286-305, for one request: every way it can go
TranslateOutcomes(text, source_language, target_languages) ==
    IF ~translator.handle
    THEN { [ translator |-> translator,
             response   |-> Response("translate", 503, "Translation service not available") ] }
    ELSE
      ( IF translator.loaded THEN {}
        ELSE { [ translator |-> tr, response |-> TranslatorLoadFailed ] :
                 tr \in AfterLoadRaised(translator) } )
      \cup
      { LET f == _translate_text([translator EXCEPT !.loaded = TRUE], text,
                                 source_language, target_languages, TRUE, fails)
        IN  [ translator |-> f.translator,
              response   |-> [ Response("translate", 200, "") EXCEPT
                                 !.translations = Some(f.translations),
                                 !.calls = (IF translator.loaded THEN <<>>
                                            ELSE << "translator.load_model" >>)
                                           \o FanOutCalls(f) ] ] :
          fails \in FailureSets(source_language, target_languages) }

\* translate_text: the handler has no suspension point
TranslateRequest ==
    /\ app_state = "serving"
    /\ \E text \in ServiceTexts, source_language \in { "en" },
          target_languages \in ServiceTargets :
         \E out \in TranslateOutcomes(text, source_language, target_languages) :
            /\ last_response' = Some(out.response)
            /\ translator' = out.translator
    /\ UNCHANGED <<USE_SENSEVOICE, ENABLE_TRANSLATION, app_state, unified_load_failed,
                   sensevoice_analyzer, emotion_classifier, speech_transcriber,
                   inflight, avars, fvars, uvars, bvars, cvars, rvars>>

Next ==
    \/ Lifespan
    \/ \E slot \in Slots : AnalyzeStart(slot)
    \/ \E slot \in Slots : AnalyzeResume(slot)
    \/ TranslateRequest

Spec == Init /\ [][Next]_vars

-----------------------------------------------------------------------------
(* SpecUpload: one /analyze request whose content type is built of fragments *)

MaxParts == 2

\* fragments of content types: media types that name audio, media types
\* that do not, and a parameter
ContentTypeParts ==
    { << "a","u","d","i","o","/","w","e","b","m" >>,
      << "a","u","d","i","o","/","o","g","g" >>,
      << "a","u","d","i","o","/","m","p","e","g" >>,
      << "a","u","d","i","o","/","m","p","3" >>,
      << "a","u","d","i","o","/","w","a","v" >>,
      << "a","p","p","l","i","c","a","t","i","o","n","/","o","c","t","e","t","-","s","t","r","e","a","m" >>,
      << "a","p","p","l","i","c","a","t","i","o","n","/","o","g","g" >>,
      << "v","i","d","e","o","/","w","e","b","m" >>,
      << "t","e","x","t","/","p","l","a","i","n" >>,
      << ";","c","o","d","e","c","s","=","o","p","u","s" >> }

\* the request has passed line 201 or was answered
UploadStarted == inflight[1] # None \/ last_response # None

\* the service after a startup that loaded the unified analyzer and deferred
\* the load of the translator; audio.content_type is missing (line 200 reads
\* it as "") and grows by fragments, or is one of the content types of Spec
UInit ==
    /\ \/ content_type = <<>> /\ parts_left = MaxParts
       \/ content_type \in ContentTypes /\ parts_left = 0
    /\ USE_SENSEVOICE = TRUE
    /\ ENABLE_TRANSLATION = TRUE
    /\ app_state = "serving"
    /\ unified_load_failed = FALSE
    /\ sensevoice_analyzer = [handle |-> TRUE, loaded |-> TRUE]
    /\ translator = [handle |-> TRUE, loaded |-> FALSE]
    /\ emotion_classifier = NoHandle
    /\ speech_transcriber = NoHandle
    /\ inflight = [ r \in Slots |-> None ]
    /\ last_response = None
    /\ raw_output = <<>> /\ budget = 0 /\ model_result = <<>>
    /\ parsed = <<>> /\ analysis = <<>>
    /\ f_call = <<>> /\ f_ret = <<>>
    /\ BIdle
    /\ CIdle
    /\ RIdle

AppendPart ==
    /\ parts_left > 0
    /\ ~UploadStarted
    /\ \E part \in ContentTypeParts : content_type' = content_type \o part
    /\ parts_left' = parts_left - 1
    /\ UNCHANGED <<avars, fvars, svars, bvars, cvars, rvars>>

\* analyze_audio, lines 199-219, on the request of this content type
UploadStart ==
    /\ ~UploadStarted
    /\ \E translate_to \in TranslateTos, language \in RequestLanguages,
          created \in BOOLEAN :
         Admit(1, content_type, translate_to, language, created)
    /\ UNCHANGED <<USE_SENSEVOICE, ENABLE_TRANSLATION, app_state, unified_load_failed,
                   sensevoice_analyzer, translator, emotion_classifier,
                   speech_transcriber, avars, fvars, uvars, bvars, cvars, rvars>>

\* analyze_audio, lines 219-274, on the same request
UploadResume == AnalyzeResume(1)

UNext ==
    \/ AppendPart
    \/ UploadStart
    \/ UploadResume

SpecUpload == UInit /\ [][UNext]_vars

-----------------------------------------------------------------------------
(* SpecSlots: load_model and is_loaded of the backend objects              *)

MaxLoads == 2

\* the backend objects whose load the service may repeat
Backends == { "sensevoice_analyzer", "translator" }

\* __init__: self._model = None, self._tokenizer = None.  An attribute is 0
\* for None, or the number of the load_model call that built its object.
Unloaded == [model |-> 0, tokenizer |-> 0]

\* is_loaded(): self._model is not None
is_loaded(inst) == inst.model # 0

\* mutant: a load that raises leaves the slot without its model
load_modelClearsOnFailure(b, inst, g) ==
    IF b = "translator"
    THEN { Unloaded,
           [inst EXCEPT !.tokenizer = g, !.model = g] }
    ELSE { Unloaded, [inst EXCEPT !.model = g] }

\* what a call of load_model, the g-th on this object, can leave behind.
\* SenseVoiceAnalyzer.load_model, lines 74-90: AutoModel raises, or its
\* result is assigned to _model.  TranslationService.load_model, lines
\* 176-184: line 181 raises; line 181 assigns _tokenizer and line 182 raises;
\* line 182 assigns _model and to(device) of line 183 raises or returns.
\* Neither looks at is_loaded() first.
load_model(b, inst, g) ==
    IF b = "translator"
    THEN { inst,
           [inst EXCEPT !.tokenizer = g],
           [inst EXCEPT !.tokenizer = g, !.model = g] }
    ELSE { inst, [inst EXCEPT !.model = g] }

\* line 224 of api/main.py: the branch analyze_audio takes
ActiveMode ==
    IF USE_SENSEVOICE /\ is_loaded(instance["sensevoice_analyzer"])
    THEN "unified" ELSE "legacy"

BInit ==
    /\ instance = [ b \in Backends |-> Unloaded ]
    /\ built = [ b \in Backends |-> 0 ]
    /\ mode = ""
    /\ USE_SENSEVOICE \in BOOLEAN
    /\ ENABLE_TRANSLATION = TRUE
    /\ app_state = "starting"
    /\ unified_load_failed = FALSE
    /\ sensevoice_analyzer = NoHandle
    /\ translator = NoHandle
    /\ emotion_classifier = NoHandle
    /\ speech_transcriber = NoHandle
    /\ inflight = [ r \in Slots |-> None ]
    /\ last_response = None
    /\ raw_output = <<>> /\ budget = 0 /\ model_result = <<>>
    /\ parsed = <<>> /\ analysis = <<>>
    /\ f_call = <<>> /\ f_ret = <<>>
    /\ UIdle
    /\ CIdle
    /\ RIdle

\* a call of b.load_model(), as lifespan makes at lines 60 and 80
LoadModel(b) ==
    /\ built[b] < MaxLoads
    /\ built' = [built EXCEPT ![b] = built[b] + 1]
    /\ \E inst \in load_model(b, instance[b], built[b] + 1) :
          instance' = [instance EXCEPT ![b] = inst]
    /\ UNCHANGED <<mode, avars, fvars, svars, uvars, cvars, rvars>>

\* "if not translator.is_loaded(): translator.load_model()", api/main.py
\* lines 289-291 and 317-318, and translator.py lines 205-206
EnsureLoaded ==
    /\ built["translator"] < MaxLoads
    /\ IF is_loaded(instance["translator"])
       THEN UNCHANGED <<instance, built>>
       ELSE /\ built' = [built EXCEPT !["translator"] = built["translator"] + 1]
            /\ \E inst \in load_model("translator", instance["translator"],
                                      built["translator"] + 1) :
                  instance' = [instance EXCEPT !["translator"] = inst]
    /\ UNCHANGED <<mode, avars, fvars, svars, uvars, cvars, rvars>>

\* one evaluation of the condition of line 224
SelectMode ==
    /\ mode' = ActiveMode
    /\ UNCHANGED <<instance, built, avars, fvars, svars, uvars, cvars, rvars>>

BNext ==
    \/ \E b \in Backends : LoadModel(b)
    \/ EnsureLoaded
    \/ SelectMode

SpecSlots == BInit /\ [][BNext]_vars

-----------------------------------------------------------------------------
(* SpecAnalyzer: the unified analyzer on model outputs built of fragments *)

Chunks ==
    { << "<","|" >>,
      << "S","A","D","|",">" >>,
      << "<","|","H","A","P","P","Y","|",">" >>,
      << "<","|","U","N","K","N","O","W","N","|",">" >>,
      << "<","|","L","A","U","G","H","T","E","R","|",">" >>,
      << "<","|","l","a","u","g","h","t","e","r","|",">" >>,
      << "<","|","E","N","|",">" >>,
      << "H","e","l","l","o"," " >>,
      << " ","w","o","r","l","d"," " >> }

\* "Hello <|HAPPY|> world <|laughter|>", the scenario of the specification
ScenarioHello ==
    << "H","e","l","l","o"," ","<","|","H","A","P","P","Y","|",">"," ",
       "w","o","r","l","d"," ","<","|","l","a","u","g","h","t","e","r","|",">" >>

Scenarios == { ScenarioHello }

\* (hint, language key of the entry) pairs tried
LanguageCases == { << "auto", NoLanguage >>, << "zh", "ja" >> }

AInit ==
    /\ \/ raw_output = <<>> /\ budget = MaxChunks
       \/ raw_output \in Scenarios /\ budget = 0
    /\ model_result = <<>>
    /\ parsed = <<>>
    /\ analysis = <<>>
    /\ f_call = <<>>
    /\ f_ret = <<>>
    /\ SIdle
    /\ UIdle
    /\ BIdle
    /\ CIdle
    /\ RIdle

\* the model emits one more fragment of its output text
AppendChunk ==
    /\ analysis = <<>>
    /\ budget > 0
    /\ \E c \in Chunks : raw_output' = raw_output \o c
    /\ budget' = budget - 1
    /\ UNCHANGED <<model_result, parsed, analysis, fvars, svars, uvars, bvars, cvars, rvars>>

\* analyze() on a model that returned one entry
AnalyzeText ==
    /\ analysis = <<>>
    /\ \E pt \in PostprocessOutcomes(raw_output), lc \in LanguageCases :
         /\ model_result' = << [text |-> raw_output, language |-> lc[2]] >>
         /\ parsed' = << [input |-> pt] @@ _parse_sensevoice_output(pt) >>
         /\ analysis' = << analyze(model_result', pt, lc[1]) >>
    /\ UNCHANGED <<raw_output, budget, fvars, svars, uvars, bvars, cvars, rvars>>

\* analyze() on a model that returned no entry
AnalyzeEmpty ==
    /\ analysis = <<>>
    /\ raw_output = <<>>
    /\ analysis' = << analyze(model_result, <<>>, "auto") >>
    /\ UNCHANGED <<raw_output, budget, model_result, parsed, fvars, svars, uvars, bvars, cvars, rvars>>

ANext == AppendChunk \/ AnalyzeText \/ AnalyzeEmpty

SpecAnalyzer == AInit /\ [][ANext]_vars

-----------------------------------------------------------------------------
(* SpecFanout: _translate_text on bounded arguments *)

Texts == { <<>>, << " " >>, << "H","i" >>, << " ","H","i"," " >> }

SourceLangs == { "en", "es" }

\* "xx" is no code of the registry
TargetLangs == { "en", "es", "fr", "xx" }

SeqsUpTo(S, n) == UNION { [1..k -> S] : k \in 0..n }

\* the global translator: None, an instance not loaded, an instance loaded
TranslatorStates ==
    { [handle |-> FALSE, loaded |-> FALSE],
      [handle |-> TRUE,  loaded |-> FALSE],
      [handle |-> TRUE,  loaded |-> TRUE] }

AIdle ==
    /\ raw_output = <<>>
    /\ budget = 0
    /\ model_result = <<>>
    /\ parsed = <<>>
    /\ analysis = <<>>

FInit ==
    /\ f_call \in { << [ translator |-> tr, text |-> tx, source_lang |-> sl,
                         target_langs |-> tl ] >> :
                       tr \in TranslatorStates, tx \in Texts, sl \in SourceLangs,
                       tl \in SeqsUpTo(TargetLangs, MaxTargets) }
    /\ f_ret = <<>>
    /\ AIdle
    /\ SIdle
    /\ UIdle
    /\ BIdle
    /\ CIdle
    /\ RIdle

\* one call of _translate_text; the load and each translate call may raise
FanOut ==
    /\ f_call # <<>>
    /\ f_ret = <<>>
    /\ \E load_ok \in BOOLEAN,
          fails \in SUBSET { i \in 1..Len(f_call[1].target_langs) :
                               f_call[1].target_langs[i] # f_call[1].source_lang } :
         f_ret' = << [ load_ok |-> load_ok, fails |-> fails ] @@
                     _translate_text(f_call[1].translator, f_call[1].text,
                                     f_call[1].source_lang, f_call[1].target_langs,
                                     load_ok, fails) >>
    /\ UNCHANGED <<f_call, avars, svars, uvars, bvars, cvars, rvars>>

FNext == FanOut

SpecFanout == FInit /\ [][FNext]_vars

-----------------------------------------------------------------------------
(* SpecLoop: the handlers of concurrent requests on the one event loop     *)
(* uvicorn.run gives the application (api/main.py line 372).  Every handler *)
(* is an "async def", so it runs on the loop and keeps it until it awaits.  *)

MaxTasks == 2

Tasks == 1..MaxTasks

\* how many targets a request asks translations for
TargetCounts == { 1, 2 }

\* mutant: load_model gives the loop away while it loads
SuspensionPointsWithLoad == { "reading", "loading" }

\* mutant: translate gives the loop away between tokenizing and decoding
SuspensionPointsWithTranslate == { "reading", "translating" }

\* where a handler can give the loop away: "await audio.read()", line 219.
\* "await _translate_text(...)" runs a coroutine that never awaits, and
\* load_model, analyze and translate are synchronous calls.
SuspensionPoints == { "reading" }

NoTask == [kind |-> "idle", pc |-> "idle", source |-> "", todo |-> 0]

\* the variables of Spec the handlers leave alone here
csvars == <<USE_SENSEVOICE, ENABLE_TRANSLATION, app_state, unified_load_failed,
            sensevoice_analyzer, emotion_classifier, speech_transcriber,
            inflight, last_response>>

cothers == <<avars, fvars, uvars, bvars, csvars, rvars>>

\* the service after a startup that loaded the unified analyzer and deferred
\* the load of the translator ("Translation will load on first use")
CInit ==
    /\ task = [ t \in Tasks |-> NoTask ]
    /\ running = 0
    /\ loading = {}
    /\ inside = [ b \in { "analyzer", "translator" } |-> {} ]
    /\ src_lang = ""
    /\ loads_ok = 0
    /\ USE_SENSEVOICE = TRUE
    /\ ENABLE_TRANSLATION = TRUE
    /\ app_state = "serving"
    /\ unified_load_failed = FALSE
    /\ sensevoice_analyzer = [handle |-> TRUE, loaded |-> TRUE]
    /\ translator = [handle |-> TRUE, loaded |-> FALSE]
    /\ emotion_classifier = NoHandle
    /\ speech_transcriber = NoHandle
    /\ inflight = [ r \in Slots |-> None ]
    /\ last_response = None
    /\ AIdle
    /\ f_call = <<>> /\ f_ret = <<>>
    /\ UIdle
    /\ BIdle
    /\ RIdle

\* a /translate request arrives and its handler starts, lines 278-289
TranslateArrives(t) ==
    /\ running = 0
    /\ task[t].kind = "idle"
    /\ \E source \in SourceLangs, todo \in TargetCounts :
          task' = [task EXCEPT ![t] = [kind |-> "translate", pc |-> "ensure",
                                       source |-> source, todo |-> todo]]
    /\ running' = t
    /\ UNCHANGED <<translator, loading, inside, src_lang, loads_ok, cothers>>

\* an /analyze request arrives and its handler runs to line 219; todo is 0
\* when the request has no translate_to
AnalyzeArrives(t) ==
    /\ running = 0
    /\ task[t].kind = "idle"
    /\ \E source \in SourceLangs, todo \in { 0 } \cup TargetCounts :
          task' = [task EXCEPT ![t] = [kind |-> "analyze", pc |-> "reading",
                                       source |-> source, todo |-> todo]]
    /\ running' = t
    /\ UNCHANGED <<translator, loading, inside, src_lang, loads_ok, cothers>>

\* the handler awaits: the loop is free for another handler
Suspend(t) ==
    /\ running = t
    /\ task[t].pc \in SuspensionPoints
    /\ running' = 0
    /\ UNCHANGED <<task, translator, loading, inside, src_lang, loads_ok, cothers>>

\* the loop goes on with a handler that had awaited
Resume(t) ==
    /\ running = 0
    /\ task[t].kind # "idle"
    /\ running' = t
    /\ UNCHANGED <<task, translator, loading, inside, src_lang, loads_ok, cothers>>

\* audio.read() returned; lines 220-224
ReadDone(t) ==
    /\ running = t
    /\ task[t].pc = "reading"
    /\ task' = [task EXCEPT ![t].pc = "analysis"]
    /\ UNCHANGED <<running, translator, loading, inside, src_lang, loads_ok, cothers>>

\* line 225: sensevoice_analyzer.analyze is entered
AnalysisBegin(t) ==
    /\ running = t
    /\ task[t].pc = "analysis"
    /\ task' = [task EXCEPT ![t].pc = "analyzing"]
    /\ inside' = [inside EXCEPT !["analyzer"] = @ \cup { t }]
    /\ UNCHANGED <<running, translator, loading, src_lang, loads_ok, cothers>>

\* the analysis returns (lines 227-251) or raises (line 266)
AnalysisEnd(t) ==
    /\ running = t
    /\ task[t].pc = "analyzing"
    /\ inside' = [inside EXCEPT !["analyzer"] = @ \ { t }]
    /\ \E raised \in BOOLEAN :
          task' = [task EXCEPT ![t].pc =
                     IF ~raised /\ task[t].todo > 0 THEN "ensure" ELSE "respond"]
    /\ UNCHANGED <<running, translator, loading, src_lang, loads_ok, cothers>>

\* "if not translator.is_loaded(): translator.load_model()": line 289 of
\* translate_text, line 317 of _translate_text; load_model is entered
Ensure(t) ==
    /\ running = t
    /\ task[t].pc = "ensure"
    /\ IF translator.loaded
       THEN /\ task' = [task EXCEPT ![t].pc = "fanout"]
            /\ UNCHANGED loading
       ELSE /\ task' = [task EXCEPT ![t].pc = "loading"]
            /\ loading' = loading \cup { t }
    /\ UNCHANGED <<running, translator, inside, src_lang, loads_ok, cothers>>

\* load_model returns, or raises (lines 293 and 266 answer the request)
LoadEnd(t) ==
    /\ running = t
    /\ task[t].pc = "loading"
    /\ loading' = loading \ { t }
    /\ \/ /\ translator' = [translator EXCEPT !.loaded = TRUE]
          /\ loads_ok' = loads_ok + 1
          /\ task' = [task EXCEPT ![t].pc = "fanout"]
       \/ /\ translator' \in AfterLoadRaised(translator)
          /\ task' = [task EXCEPT ![t].pc = "respond"]
          /\ UNCHANGED loads_ok
    /\ UNCHANGED <<running, inside, src_lang, cothers>>

\* line 328 calls translate for the next target; translate sets the source
\* language on the shared tokenizer, translator.py line 213
TranslateBegin(t) ==
    /\ running = t
    /\ task[t].pc = "fanout"
    /\ task[t].todo > 0
    /\ task' = [task EXCEPT ![t].pc = "translating"]
    /\ src_lang' = NllbCode(task[t].source)
    /\ inside' = [inside EXCEPT !["translator"] = @ \cup { t }]
    /\ UNCHANGED <<running, translator, loading, loads_ok, cothers>>

\* translate tokenizes, generates and decodes (lines 216-238), and returns
\* or raises into the except of line 337: the loop goes to the next target
TranslateEnd(t) ==
    /\ running = t
    /\ task[t].pc = "translating"
    /\ task' = [task EXCEPT ![t].pc = "fanout", ![t].todo = @ - 1]
    /\ inside' = [inside EXCEPT !["translator"] = @ \ { t }]
    /\ UNCHANGED <<running, translator, loading, src_lang, loads_ok, cothers>>

\* the handler returns its response or raises its HTTPException
Finish(t) ==
    /\ running = t
    /\ \/ task[t].pc = "respond"
       \/ task[t].pc = "fanout" /\ task[t].todo = 0
    /\ task' = [task EXCEPT ![t] = NoTask]
    /\ running' = 0
    /\ UNCHANGED <<translator, loading, inside, src_lang, loads_ok, cothers>>

CNext ==
    \E t \in Tasks :
        \/ TranslateArrives(t)
        \/ AnalyzeArrives(t)
        \/ Suspend(t)
        \/ Resume(t)
        \/ ReadDone(t)
        \/ AnalysisBegin(t)
        \/ AnalysisEnd(t)
        \/ Ensure(t)
        \/ LoadEnd(t)
        \/ TranslateBegin(t)
        \/ TranslateEnd(t)
        \/ Finish(t)

SpecLoop == CInit /\ [][CNext]_vars

-----------------------------------------------------------------------------
(* AudioRecorder: one recorder object, the thread that calls                *)
(* start_recording and stop_recording, and the callback thread of every    *)
(* stream the recorder opened (specification SpecRecorder)                 *)

MaxCalls == 3       \* the start_recording / stop_recording calls of a behaviour

MaxCaptured == 2    \* the chunks the input streams deliver in a behaviour

\* the streams the recorder can open: one per call at most
StreamIds == 1..MaxCalls

\* the thread that calls start_recording and stop_recording; the callback
\* thread of a stream is named by the stream
MainThread == 0

NoChunk == [n |-> 0, session |-> 0, stream |-> 0]

CallbackIdle == [pc |-> "idle", chunk |-> NoChunk]

\* AudioRecorder.__init__
RInit ==
    /\ recording = FALSE
    /\ audio_data = <<>>
    /\ _lock = None
    /\ _stream = 0
    /\ streams = [ s \in StreamIds |-> "none" ]
    /\ callback = [ s \in StreamIds |-> CallbackIdle ]
    /\ rpc = "idle"
    /\ api_calls = 0
    /\ delivered = 0
    /\ session = 0
    /\ audio_array = <<>>
    /\ ret = <<>>
    /\ AIdle
    /\ f_call = <<>> /\ f_ret = <<>>
    /\ SIdle
    /\ UIdle
    /\ BIdle
    /\ CIdle

rothers == <<avars, fvars, svars, uvars, bvars, cvars>>

\* start_recording is called and takes the lock, line 36
StartRecording ==
    /\ rpc = "idle"
    /\ api_calls < MaxCalls
    /\ _lock = None
    /\ _lock' = Some(MainThread)
    /\ rpc' = "start_locked"
    /\ api_calls' = api_calls + 1
    /\ ret' = <<>>
    /\ UNCHANGED <<recording, audio_data, _stream, streams, callback, delivered,
                   session, audio_array, rothers>>

\* "self.audio_data = []" and the release of the lock, line 37
StartReset ==
    /\ rpc = "start_locked"
    /\ audio_data' = <<>>
    /\ session' = session + 1
    /\ _lock' = None
    /\ rpc' = "start_flag"
    /\ UNCHANGED <<recording, _stream, streams, callback, api_calls, delivered,
                   audio_array, ret, rothers>>

\* "self.recording = True", line 38
StartFlag ==
    /\ rpc = "start_flag"
    /\ recording' = TRUE
    /\ rpc' = "start_open"
    /\ UNCHANGED <<audio_data, _lock, _stream, streams, callback, api_calls,
                   delivered, session, audio_array, ret, rothers>>

\* "self._stream = sd.InputStream(...)", lines 40-45: the constructor opens a
\* new stream, or raises; the stream _stream named before is not looked at
StartOpen ==
    /\ rpc = "start_open"
    /\ \E opened \in BOOLEAN :
         IF opened
         THEN LET s == CHOOSE i \in StreamIds :
                          /\ streams[i] = "none"
                          /\ \A j \in StreamIds : streams[j] = "none" => i <= j
              IN  /\ streams' = [streams EXCEPT ![s] = "open"]
                  /\ _stream' = s
                  /\ rpc' = "start_start"
         ELSE /\ rpc' = "idle"
              /\ UNCHANGED <<streams, _stream>>
    /\ UNCHANGED <<recording, audio_data, _lock, callback, api_calls, delivered,
                   session, audio_array, ret, rothers>>

\* "self._stream.start()", line 46: the stream becomes active, or start raises
StartStream ==
    /\ rpc = "start_start"
    /\ \E started \in BOOLEAN :
         streams' = IF started THEN [streams EXCEPT ![_stream] = "active"] ELSE streams
    /\ rpc' = "idle"
    /\ UNCHANGED <<recording, audio_data, _lock, _stream, callback, api_calls,
                   delivered, session, audio_array, ret, rothers>>

\* stop_recording is called: "self.recording = False", line 55
StopRecording ==
    /\ rpc = "idle"
    /\ api_calls < MaxCalls
    /\ recording' = FALSE
    /\ rpc' = "stop_stream"
    /\ api_calls' = api_calls + 1
    /\ ret' = <<>>
    /\ UNCHANGED <<audio_data, _lock, _stream, streams, callback, delivered,
                   session, audio_array, rothers>>

\* lines 57-60: the stream _stream names, if any, is stopped and closed;
\* stop() returns once the callback of that stream is not running
StopStream ==
    /\ rpc = "stop_stream"
    /\ IF _stream = 0
       THEN UNCHANGED <<streams, _stream>>
       ELSE /\ callback[_stream].pc = "idle"
            /\ streams' = [streams EXCEPT ![_stream] = "closed"]
            /\ _stream' = 0
    /\ rpc' = "stop_acquire"
    /\ UNCHANGED <<recording, audio_data, _lock, callback, api_calls, delivered,
                   session, audio_array, ret, rothers>>

\* "with self._lock:", line 62
StopAcquire ==
    /\ rpc = "stop_acquire"
    /\ _lock = None
    /\ _lock' = Some(MainThread)
    /\ rpc' = "stop_locked"
    /\ UNCHANGED <<recording, audio_data, _stream, streams, callback, api_calls,
                   delivered, session, audio_array, ret, rothers>>

\* lines 63-67: "return None" when audio_data is empty, else the chunks are
\* concatenated into audio_array; the lock is released either way
StopSnapshot ==
    /\ rpc = "stop_locked"
    /\ IF audio_data = <<>>
       THEN /\ ret' = << "None" >>
            /\ rpc' = "idle"
            /\ UNCHANGED audio_array
       ELSE /\ audio_array' = audio_data
            /\ rpc' = "stop_write"
            /\ UNCHANGED ret
    /\ _lock' = None
    /\ UNCHANGED <<recording, audio_data, _stream, streams, callback, api_calls,
                   delivered, session, rothers>>

\* lines 70-80: audio_array is written to a temporary .wav file whose name
\* is returned
StopWrite ==
    /\ rpc = "stop_write"
    /\ ret' = << "wav", audio_array >>
    /\ rpc' = "idle"
    /\ UNCHANGED <<recording, audio_data, _lock, _stream, streams, callback,
                   api_calls, delivered, session, audio_array, rothers>>

\* an active stream calls _audio_callback with a chunk, line 26
Deliver(s) ==
    /\ streams[s] = "active"
    /\ callback[s].pc = "idle"
    /\ delivered < MaxCaptured
    /\ delivered' = delivered + 1
    /\ callback' = [callback EXCEPT ![s] =
                      [pc |-> "check",
                       chunk |-> [n |-> delivered + 1, session |-> session, stream |-> s]]]
    /\ UNCHANGED <<recording, audio_data, _lock, _stream, streams, rpc, api_calls,
                   session, audio_array, ret, rothers>>

\* "if self.recording:", line 30, read without the lock
CheckRecording(s) ==
    /\ callback[s].pc = "check"
    /\ callback' = [callback EXCEPT ![s] =
                      IF recording THEN [@ EXCEPT !.pc = "acquire"] ELSE CallbackIdle]
    /\ UNCHANGED <<recording, audio_data, _lock, _stream, streams, rpc, api_calls,
                   delivered, session, audio_array, ret, rothers>>

\* "with self._lock:", line 31
CallbackAcquire(s) ==
    /\ callback[s].pc = "acquire"
    /\ _lock = None
    /\ _lock' = Some(s)
    /\ callback' = [callback EXCEPT ![s].pc = "locked"]
    /\ UNCHANGED <<recording, audio_data, _stream, streams, rpc, api_calls,
                   delivered, session, audio_array, ret, rothers>>

\* "self.audio_data.append(indata.copy())" and the release of the lock,
\* line 32
CallbackAppend(s) ==
    /\ callback[s].pc = "locked"
    /\ audio_data' = Append(audio_data, callback[s].chunk)
    /\ _lock' = None
    /\ callback' = [callback EXCEPT ![s] = CallbackIdle]
    /\ UNCHANGED <<recording, _stream, streams, rpc, api_calls, delivered,
                   session, audio_array, ret, rothers>>

RNext ==
    \/ StartRecording
    \/ StartReset
    \/ StartFlag
    \/ StartOpen
    \/ StartStream
    \/ StopRecording
    \/ StopStream
    \/ StopAcquire
    \/ StopSnapshot
    \/ StopWrite
    \/ \E s \in StreamIds : Deliver(s)
    \/ \E s \in StreamIds : CheckRecording(s)
    \/ \E s \in StreamIds : CallbackAcquire(s)
    \/ \E s \in StreamIds : CallbackAppend(s)

SpecRecorder == RInit /\ [][RNext]_vars

-----------------------------------------------------------------------------
(* Claims about the translation fan-out (specification SpecFanout)         *)

FArgs == f_call[1]

FOut == f_ret[1]

\* the call went past the guard and the on-demand load: the loop ran
FLoopRan ==
    /\ f_ret # <<>>
    /\ FArgs.translator.handle
    /\ strip(FArgs.text) # <<>>
    /\ (FArgs.translator.loaded \/ FOut.load_ok)

\* the positions of the request that are neither the source nor failed
Survivors ==
    { i \in 1..Len(FArgs.target_langs) :
        FArgs.target_langs[i] # FArgs.source_lang /\ i \notin FOut.fails }

ResultCodes == [ k \in 1..Len(FOut.translations) |-> FOut.translations[k].language_code ]

\* the subsequence of s at the positions in keep
RECURSIVE Restrict(_, _)
Restrict(s, keep) ==
    IF s = <<>> THEN <<>>
    ELSE Restrict(SubSeq(s, 1, Len(s) - 1), keep)
           \o (IF Len(s) \in keep THEN << s[Len(s)] >> ELSE <<>>)

\* C2: whichever translate calls raise, the fan-out returns normally (the
\* only exception that leaves it is a failed on-demand load, before any
\* translate call); the result has an item for every requested position that
\* is not the source and whose call succeeded, none for a failed call, and
\* the call for every position that is not the source is made, also after a
\* failure.
C2_FailureIsolated ==
    f_ret # <<>> =>
        /\ FOut.raised => (~FArgs.translator.loaded /\ ~FOut.load_ok /\ FOut.calls = <<>>)
        /\ FLoopRan =>
             /\ ~FOut.raised
             /\ Len(FOut.translations) = Cardinality(Survivors)
             /\ \A i \in Survivors :
                   \E k \in 1..Len(ResultCodes) : ResultCodes[k] = FArgs.target_langs[i]
             /\ \A k \in 1..Len(ResultCodes) :
                   \E i \in Survivors : ResultCodes[k] = FArgs.target_langs[i]
             /\ \A i \in 1..Len(FArgs.target_langs) :
                   FArgs.target_langs[i] # FArgs.source_lang =>
                      \E c \in 1..Len(FOut.calls) :
                         FOut.calls[c] = << i, FArgs.target_langs[i] >>

\* C2 witness: a translate call failed, a later one succeeded, and the
\* fan-out returned the later target's item.
C2_Witness ==
    /\ FLoopRan
    /\ ~FOut.raised
    /\ \E i \in FOut.fails, j \in Survivors :
          /\ i < j
          /\ FArgs.target_langs[i] # FArgs.target_langs[j]
          /\ \E k \in 1..Len(ResultCodes) : ResultCodes[k] = FArgs.target_langs[j]
          /\ \A k \in 1..Len(ResultCodes) : ResultCodes[k] # FArgs.target_langs[i]

\* C3, as claimed: the result holds no item whose code is the source and no
\* two items with the same code.
C3_NoSourceNoDuplicates ==
    f_ret # <<>> =>
        /\ \A k \in 1..Len(ResultCodes) : ResultCodes[k] # FArgs.source_lang
        /\ \A k, l \in 1..Len(ResultCodes) : ResultCodes[k] = ResultCodes[l] => k = l

\* C3, amended: the result holds no item whose code is the source; a code
\* stands in the result at most as often as it stands in the request, so two
\* items share a code only when the request names that code twice.
C3_NoSourceDuplicatesOnlyAsRequested ==
    f_ret # <<>> =>
        /\ \A k \in 1..Len(ResultCodes) : ResultCodes[k] # FArgs.source_lang
        /\ \A c \in TargetLangs :
              Cardinality({ k \in 1..Len(ResultCodes) : ResultCodes[k] = c })
                 <= Cardinality({ i \in 1..Len(FArgs.target_langs) :
                                      FArgs.target_langs[i] = c })

\* C3 witness: a request that names the source and names another code twice
\* has been answered with an item.
C3_Witness ==
    /\ FLoopRan
    /\ \E i \in 1..Len(FArgs.target_langs) : FArgs.target_langs[i] = FArgs.source_lang
    /\ \E i, j \in 1..Len(FArgs.target_langs) :
          i # j /\ FArgs.target_langs[i] = FArgs.target_langs[j]
                /\ FArgs.target_langs[i] # FArgs.source_lang
    /\ FOut.translations # <<>>

\* C4: the codes of the result are the requested sequence with the source
\* positions and the failed positions deleted, in request order; translate
\* is called at most once per position and in request order.
C4_RequestOrderKept ==
    FLoopRan =>
        /\ ResultCodes = Restrict(FArgs.target_langs, Survivors)
        /\ \A c, d \in 1..Len(FOut.calls) : c < d => FOut.calls[c][1] < FOut.calls[d][1]
        /\ \A c \in 1..Len(FOut.calls) :
              /\ FOut.calls[c][1] \in 1..Len(FArgs.target_langs)
              /\ FOut.calls[c][2] = FArgs.target_langs[FOut.calls[c][1]]

\* C4 witness: two different targets survived around a deleted position.
C4_Witness ==
    /\ FLoopRan
    /\ \E i, j \in Survivors, d \in 1..Len(FArgs.target_langs) :
          /\ i < d /\ d < j /\ d \notin Survivors
          /\ FArgs.target_langs[i] # FArgs.target_langs[j]
    /\ Len(FOut.translations) = 2

\* C5: with no translator handle, or a text that is empty or only
\* whitespace, the fan-out returns the empty list: no exception, no
\* load_model call, no translate call, the translator left as it was.
C5_GuardReturnsEmpty ==
    (f_ret # <<>> /\ (~FArgs.translator.handle \/ strip(FArgs.text) = <<>>)) =>
        /\ ~FOut.raised
        /\ FOut.translations = <<>>
        /\ FOut.loads = 0
        /\ FOut.calls = <<>>
        /\ FOut.translator = FArgs.translator

\* C5 witness: a whitespace-only text with targets to translate to and a
\* translator that is present but not loaded, whose load would raise.
C5_Witness ==
    /\ f_ret # <<>>
    /\ FArgs.text = << " " >>
    /\ FArgs.translator = [handle |-> TRUE, loaded |-> FALSE]
    /\ ~FOut.load_ok
    /\ \E i \in 1..Len(FArgs.target_langs) : FArgs.target_langs[i] # FArgs.source_lang
    /\ FOut.translations = <<>>

-----------------------------------------------------------------------------
(* The tag grammar, stated by positions: s[i..j] is "<|" + one or more      *)
(* uppercase letters + "|>"                                                 *)

IsTagAt(s, i, j) ==
    /\ i + 4 <= j /\ j <= Len(s)
    /\ s[i] = "<" /\ s[i + 1] = "|" /\ s[j - 1] = "|" /\ s[j] = ">"
    /\ \A k \in (i + 2)..(j - 2) : s[k] \in Upper

TagSpans(s) == { t \in (1..Len(s)) \X (1..Len(s)) : IsTagAt(s, t[1], t[2]) }

TagName(s, t) == SubSeq(s, t[1] + 2, t[2] - 2)

EmotionSpans(s) == { t \in TagSpans(s) : TagName(s, t) \in DOMAIN EMOTION_DISPLAY }

LastSpan(S) == CHOOSE t \in S : \A u \in S : u[1] <= t[1]

-----------------------------------------------------------------------------
(* Claims about the rich-output parser and the unified analyzer            *)
(* (specification SpecAnalyzer)                                            *)

\* C6: the emotion the parser resolves is the identifier of the last emotion
\* tag of its input in document order, and NEUTRAL when the input has no
\* emotion tag; tags that are no emotion tags, wherever they stand, do not
\* change it.
C6_LastEmotionTagWins ==
    parsed # <<>> =>
        LET s == parsed[1].input
            E == EmotionSpans(s)
        IN  IF E = {} THEN parsed[1].emotion = NEUTRAL
            ELSE parsed[1].emotion = TagName(s, LastSpan(E))

\* C6 witness: an input with two emotion tags of different identifiers and a
\* tag that is no emotion tag after the last of them has been parsed.
C6_Witness ==
    /\ parsed # <<>>
    /\ LET s == parsed[1].input
           E == EmotionSpans(s)
       IN  /\ \E t, u \in E : TagName(s, t) # TagName(s, u)
           /\ \E v \in TagSpans(s) \ E : \A t \in E : t[1] < v[1]
           /\ \E t \in E : t[1] < LastSpan(E)[1] /\ parsed[1].emotion # TagName(s, t)

\* C7, as claimed: the clean text of the parser holds no occurrence of the
\* tag pattern "<|" + uppercase letters + "|>", whatever the input.
C7_CleanTextHasNoTag ==
    parsed # <<>> => TagSpans(parsed[1].clean_text) = {}

\* C8, as claimed: "Hello <|HAPPY|> world <|laughter|>" parses to the clean
\* text "Hello world", the emotion HAPPY (label Happy) and the events
\* ["laughter"].
C8_ScenarioHello ==
    (parsed # <<>> /\ parsed[1].input = ScenarioHello) =>
        /\ parsed[1].clean_text = << "H","e","l","l","o"," ","w","o","r","l","d" >>
        /\ EMOTION_DISPLAY[parsed[1].emotion].label = << "H","a","p","p","y" >>
        /\ parsed[1].audio_events = << << "l","a","u","g","h","t","e","r" >> >>

\* the distribution of an analysis gives the resolved emotion 0.85 and every
\* other registry emotion but UNKNOWN 0.05, and its confidence is 0.85
SynthesizedDistribution(r) ==
    LET resolved == r.emotion.raw_label
        probs    == r.emotion.all_probabilities
    IN  /\ r.emotion.confidence = 85
        /\ resolved \in DOMAIN probs
        /\ probs[resolved] = 85
        /\ \A e \in (DOMAIN EMOTION_DISPLAY) \ { UNKNOWN } :
              lower(e) # resolved => (lower(e) \in DOMAIN probs /\ probs[lower(e)] = 5)

\* C9, as claimed: every result of analyze, the one for an empty model output
\* included, has confidence 0.85 and the 0.85 / 0.05 distribution.
C9_AlwaysSynthesized ==
    analysis # <<>> => SynthesizedDistribution(analysis[1])

\* C9, amended: every result of analyze for a model output with at least one
\* entry has confidence 0.85, the resolved emotion at 0.85 and every other
\* registry emotion but UNKNOWN at 0.05; for a model output with no entry
\* analyze returns confidence 0.0 and an empty distribution.
C9_SynthesizedUnlessEmpty ==
    analysis # <<>> =>
        IF model_result # <<>>
        THEN SynthesizedDistribution(analysis[1])
        ELSE /\ analysis[1].emotion.confidence = 0
             /\ DOMAIN analysis[1].emotion.all_probabilities = {}

\* C9 witness: analyze has returned for a model output whose text resolves
\* to an emotion other than the default.
C9_Witness ==
    /\ analysis # <<>>
    /\ model_result # <<>>
    /\ analysis[1].emotion.raw_label = lower(SAD)
    /\ analysis[1].emotion.all_probabilities[lower(SAD)] = 85
    /\ analysis[1].emotion.all_probabilities[lower(NEUTRAL)] = 5

-----------------------------------------------------------------------------
(* Claims on the service, checked under Spec *)

\* the response the service sent last, when it is a successful /analyze one
AnalyzeSucceeded ==
    /\ last_response # None
    /\ last_response[1].endpoint = "analyze"
    /\ last_response[1].status = 200

\* C1: when the service prefers the unified backend and the unified load
\* raises during startup, the exception does not leave lifespan and the
\* legacy pair (transcriber and emotion classifier) is loaded, so that a
\* later successful /analyze answer comes from the legacy branch.  The code
\* swallows the exception and serves, but the legacy handles stay unset.
C1_FallbackToLegacy ==
    (USE_SENSEVOICE /\ unified_load_failed /\ app_state # "starting") =>
        /\ app_state = "serving"
        /\ speech_transcriber.handle /\ speech_transcriber.loaded
        /\ emotion_classifier.handle /\ emotion_classifier.loaded
        /\ AnalyzeSucceeded => last_response[1].path = "legacy"

\* C10: in every successful /analyze response audio_events is absent exactly
\* when the legacy branch produced the response; a response of the unified
\* branch always carries a list, which may be empty.
C10_AudioEventsAbsentIffLegacy ==
    AnalyzeSucceeded =>
        /\ last_response[1].path \in { "unified", "legacy" }
        /\ last_response[1].audio_events = None <=> last_response[1].path = "legacy"
        /\ last_response[1].path = "unified" =>
              /\ last_response[1].audio_events # None
              /\ last_response[1].audio_events[1] \in Seq(AUDIO_EVENTS)

\* C10 witness: a successful response of the unified branch whose list of
\* events is empty: present, and not the absent value of the legacy branch
C10_Witness ==
    /\ AnalyzeSucceeded
    /\ last_response[1].path = "unified"
    /\ last_response[1].audio_events = Some(<<>>)
    /\ last_response[1].audio_events # LegacyAudioEvents

\* the response the service sent last, when it answers an /analyze request
AnalyzeAnswered ==
    /\ last_response # None
    /\ last_response[1].endpoint = "analyze"

\* the response the service sent last, when it answers a /translate request
TranslateAnswered ==
    /\ last_response # None
    /\ last_response[1].endpoint = "translate"

Elements(seq) == { seq[i] : i \in 1..Len(seq) }

Occurrences(seq, x) == Cardinality({ i \in 1..Len(seq) : seq[i] = x })

AnalysisCalls ==
    { "sensevoice_analyzer.analyze", "speech_transcriber.transcribe",
      "emotion_classifier.classify" }

TranslatorCalls == { "translator.load_model", "translator.translate" }

\* C12: when an /analyze request that created a temporary file finishes, the
\* file no longer exists, whether the request succeeded or failed and
\* whichever step failed.  The code unlinks tmp_path only when it was
\* assigned, which a failed read or write of the upload prevents.
C12_TemporaryFileRemoved ==
    AnalyzeAnswered => ~last_response[1].tmp_left

\* no analysis backend is Ready: the unified branch is not taken and a legacy
\* handle is missing
NoBackendReady ==
    /\ app_state = "serving"
    /\ ~UnifiedActive
    /\ ~emotion_classifier.handle \/ ~speech_transcriber.handle

\* the answers caused by the request or its upload, not by the backends
UploadDetails ==
    { "Invalid file type", "Analysis failed: tempfile", "Analysis failed: upload" }

\* C13: while no analysis backend is Ready, an /analyze request with a valid
\* content type whose upload is stored is answered with 503 and with no
\* other error class.  The code raises the 503 inside the try block, whose
\* except branch answers 500.
C13_NoBackendIsUnavailable ==
    (NoBackendReady /\ AnalyzeAnswered /\ last_response[1].detail \notin UploadDetails)
        => last_response[1].status = 503

\* C14: an /analyze request whose translations needed the on-demand load of
\* the translator still succeeds with its transcription and emotion, also
\* when that load fails.  In the code the exception of load_model leaves
\* _translate_text and the request is answered 500.
C14_LoadFailureKeepsAnalysis ==
    (AnalyzeAnswered /\ "translator.load_model" \in Elements(last_response[1].calls))
        => /\ last_response[1].status = 200
           /\ last_response[1].transcription # None
           /\ last_response[1].emotion # None

\* C15: a /translate request is answered 503 exactly when the translator
\* handle is absent or the on-demand load fails; when the translator is not
\* loaded and the load succeeds, the load comes before the first translate
\* call and the request answers 200 with a list that per-target failures
\* only shorten.
C15_TranslateUnavailableOnlyOnLoad ==
    [][ (last_response' # last_response /\ last_response'[1].endpoint = "translate") =>
          LET r == last_response'[1]
              translate_calls == Occurrences(r.calls, "translator.translate")
          IN  /\ r.status \in { 200, 503 }
              /\ r.status = 503 <=>
                    \/ ~translator.handle
                    \/ /\ ~translator.loaded
                       /\ r.calls = << "translator.load_model" >>
                       /\ r.translations = None
              /\ ~translator.handle => r.calls = <<>> /\ translator' = translator
              /\ r.status = 200 =>
                    /\ translator.handle /\ translator'.handle /\ translator'.loaded
                    /\ r.translations # None
                    /\ Len(r.translations[1]) <= translate_calls
                    /\ Occurrences(r.calls, "translator.load_model")
                          = (IF translator.loaded THEN 0 ELSE 1)
                    /\ ~translator.loaded =>
                          r.calls[1] = "translator.load_model" ]_vars

\* C15 witness: a /translate answer 200 after an on-demand load, with two
\* translate calls of which one raised
C15_Witness ==
    /\ TranslateAnswered
    /\ last_response[1].status = 200
    /\ last_response[1].calls
         = << "translator.load_model", "translator.translate", "translator.translate" >>
    /\ Len(last_response[1].translations[1]) = 1
    /\ translator.loaded

\* the active backend raised during inference: the request failed and the
\* last backend call it made is a call of an analysis backend
InferenceRaised ==
    /\ AnalyzeAnswered
    /\ last_response[1].status # 200
    /\ last_response[1].calls # <<>>
    /\ last_response[1].calls[Len(last_response[1].calls)] \in AnalysisCalls

\* C19: when the active backend raises during inference, /analyze answers
\* 500 with a diagnostic detail, carries neither transcription nor emotion,
\* made no translator call and called no backend twice; no response carries
\* a transcription without an emotion or an emotion without a transcription.
C19_InferenceFailureIsServerError ==
    /\ InferenceRaised =>
          /\ last_response[1].status = 500
          /\ last_response[1].detail = "Analysis failed: inference"
          /\ last_response[1].transcription = None
          /\ last_response[1].emotion = None
          /\ last_response[1].audio_events = None
          /\ last_response[1].translations = None
          /\ Elements(last_response[1].calls) \cap TranslatorCalls = {}
          /\ \A c \in AnalysisCalls : Occurrences(last_response[1].calls, c) <= 1
    /\ AnalyzeAnswered =>
          (last_response[1].transcription = None <=> last_response[1].emotion = None)

\* C19 witness: on the legacy branch the transcription succeeded and the
\* emotion classification raised
C19_Witness ==
    /\ InferenceRaised
    /\ last_response[1].calls
         = << "speech_transcriber.transcribe", "emotion_classifier.classify" >>
    /\ last_response[1].status = 500
    /\ last_response[1].transcription = None

-----------------------------------------------------------------------------
(* Claims on the admission of an upload, checked under SpecUpload *)

\* the suffix of the temporary file of the request, "" when it has none
TmpSuffix ==
    IF inflight[1] # None THEN inflight[1][1].suffix
    ELSE IF last_response # None THEN last_response[1].suffix
    ELSE ""

\* C11: an /analyze request whose content type contains neither "audio" nor
\* "octet-stream", a missing content type included, is answered 400; no
\* temporary file was created for it and no backend was called or loaded.
C11_InvalidContentTypeRejected ==
    ( /\ UploadStarted
      /\ ~Contains(content_type, << "a","u","d","i","o" >>)
      /\ ~Contains(content_type, << "o","c","t","e","t","-","s","t","r","e","a","m" >>) )
    => /\ inflight = [ r \in Slots |-> None ]
       /\ last_response # None
       /\ last_response[1].endpoint = "analyze"
       /\ last_response[1].status = 400
       /\ last_response[1].suffix = ""
       /\ ~last_response[1].tmp_left
       /\ last_response[1].calls = <<>>
       /\ last_response[1].transcription = None
       /\ translator = [handle |-> TRUE, loaded |-> FALSE]
       /\ sensevoice_analyzer = [handle |-> TRUE, loaded |-> TRUE]

\* C11 witness: a request of a media type that names no audio ("video/webm"
\* would get a suffix) was answered 400
C11_Witness ==
    /\ content_type = << "v","i","d","e","o","/","w","e","b","m" >>
    /\ last_response # None
    /\ last_response[1].status = 400
    /\ inflight[1] = None

\* C20: the suffix of the temporary file depends on the content type only:
\* ".webm" if it contains "webm"; otherwise ".ogg" if it contains "ogg";
\* otherwise ".mp3" if it contains "mpeg" or "mp3"; otherwise ".wav";
\* "audio/webm;codecs=opus" gives ".webm".
C20_SuffixFromContentType ==
    LET webm == Contains(content_type, << "w","e","b","m" >>)
        ogg  == Contains(content_type, << "o","g","g" >>)
        mp3  == Contains(content_type, << "m","p","e","g" >>)
                  \/ Contains(content_type, << "m","p","3" >>)
    IN  TmpSuffix # "" =>
          /\ webm => TmpSuffix = ".webm"
          /\ (~webm /\ ogg) => TmpSuffix = ".ogg"
          /\ (~webm /\ ~ogg /\ mp3) => TmpSuffix = ".mp3"
          /\ (~webm /\ ~ogg /\ ~mp3) => TmpSuffix = ".wav"
          /\ content_type = << "a","u","d","i","o","/","w","e","b","m",";","c","o","d","e","c","s","=","o","p","u","s" >>
                => TmpSuffix = ".webm"

\* C20 witness: the upload of content type "audio/webm;codecs=opus" is being
\* read into a temporary file of suffix ".webm"
C20_Witness ==
    /\ content_type = << "a","u","d","i","o","/","w","e","b","m",";","c","o","d","e","c","s","=","o","p","u","s" >>
    /\ inflight[1] # None
    /\ inflight[1][1].suffix = ".webm"
    /\ TmpSuffix = ".webm"

-----------------------------------------------------------------------------
(* Claims on the backend objects, checked under SpecSlots *)

\* C16: loading is idempotent: a load on a backend that is already loaded
\* rebuilds and replaces nothing and leaves the backend as it was; the
\* active mode selected in a Ready state is selected again by the next
\* selection.  load_model of the code builds a new model whenever called.
C16_LoadIsIdempotent ==
    [][ /\ \A b \in Backends :
             is_loaded(instance[b]) => instance'[b] = instance[b]
        /\ (mode = "unified" /\ mode' # mode) => FALSE ]_vars

-----------------------------------------------------------------------------
(* Claims on concurrent requests, checked under SpecLoop *)

\* C17: however the requests that need the translator interleave while it is
\* not loaded, no load of the translator starts while another is in
\* progress, and at most one load returns successfully.
C17_NoDuplicateLoad ==
    /\ Cardinality(loading) <= 1
    /\ loads_ok <= 1
    /\ loading # {} => ~translator.loaded

\* C17 witness: a request is inside load_model while another request that
\* asks for translations, accepted before the translator was loaded, waits
\* for its upload
C17_Witness ==
    \E t \in Tasks, u \in Tasks :
        /\ t # u
        /\ loading = { t }
        /\ task[u].kind = "analyze"
        /\ task[u].pc = "reading"
        /\ task[u].todo > 0
        /\ ~translator.loaded

\* C18: calls of a backend object are serialized: no two requests are
\* inside a call of the same backend at once, and while a request is inside
\* translate the source language on the shared tokenizer is the one that
\* request set.
C18_BackendCallsSerialized ==
    /\ \A b \in DOMAIN inside : Cardinality(inside[b]) <= 1
    /\ \A t \in inside["translator"] : src_lang = NllbCode(task[t].source)
    /\ \A t \in Tasks :
          (task[t].pc \in { "analyzing", "loading", "translating" }) => running = t

\* C18 witness: a request is inside translate from Spanish while a request
\* whose text is English, and which will translate too, waits for its upload
C18_Witness ==
    \E t \in Tasks, u \in Tasks :
        /\ t # u
        /\ inside["translator"] = { t }
        /\ task[t].source = "es"
        /\ src_lang = "spa_Latn"
        /\ task[u].pc = "reading"
        /\ task[u].source = "en"
        /\ task[u].todo > 0

-----------------------------------------------------------------------------
(* Display metadata of the fan-out result *)

\* the rows of the language registry whose code is the given one
RegistryRows(code) ==
    { r \in 1..Len(LanguageTable) : LanguageTable[r][1] = code }

\* C21: every item of the fan-out result carries the display name and the
\* flag the language registry holds for its code; an item whose code is not
\* in the registry carries the raw code as its name and the placeholder
\* flag; and a target outside the registry whose call did not fail still
\* has its item.
C21_DisplayMetadata ==
    FLoopRan =>
        /\ \A k \in 1..Len(FOut.translations) :
              LET item == FOut.translations[k]
                  rows == RegistryRows(item.language_code)
              IN  IF rows # {}
                  THEN \A r \in rows :
                          /\ item.language_name = LanguageTable[r][2]
                          /\ item.flag = LanguageTable[r][3]
                  ELSE /\ item.language_name = item.language_code
                       /\ item.flag = PLACEHOLDER_FLAG
        /\ \A i \in Survivors :
              RegistryRows(FArgs.target_langs[i]) = {} =>
                  \E k \in 1..Len(FOut.translations) :
                      FOut.translations[k].language_code = FArgs.target_langs[i]

\* C21 witness: a result with an item of a registry language next to the
\* item of a code the registry does not hold
C21_Witness ==
    /\ FLoopRan
    /\ \E k, l \in 1..Len(FOut.translations) :
          /\ FOut.translations[k].language_code = "xx"
          /\ FOut.translations[k].language_name = "xx"
          /\ FOut.translations[k].flag = PLACEHOLDER_FLAG
          /\ FOut.translations[l].language_code = "fr"
          /\ FOut.translations[l].language_name = "French"
          /\ FOut.translations[l].flag = "FR"

-----------------------------------------------------------------------------
(* The closed set of emotion labels *)

\* the labels of the emotion registry: Angry, Disgust, Fearful, Happy,
\* Neutral, Sad, Surprised, Unknown
EmotionLabels == { EMOTION_DISPLAY[k].label : k \in DOMAIN EMOTION_DISPLAY }

\* C22: the emotion label of every analysis answered with 200, on the
\* unified and on the legacy path, is one of the eight labels of the closed
\* set
C22_LabelInClosedSet ==
    AnalyzeSucceeded => last_response[1].emotion[1].emotion \in EmotionLabels

-----------------------------------------------------------------------------
(* The event list of the parser (specification SpecAnalyzer) *)

\* the spans of a set in document order
RECURSIVE SpansInOrder(_)
SpansInOrder(S) ==
    IF S = {} THEN <<>>
    ELSE LET t == LastSpan(S) IN Append(SpansInOrder(S \ { t }), t)

\* the scanned tags that are no emotion identifiers and whose lowercased
\* identifier is in the audio-event vocabulary
EventSpans(s) ==
    { t \in TagSpans(s) :
        /\ TagName(s, t) \notin DOMAIN EMOTION_DISPLAY
        /\ lower(TagName(s, t)) \in AUDIO_EVENTS }

\* C24: the event list of the parser is the sequence, in document order and
\* with duplicates, of the lowercased identifiers of the scanned tags that
\* are no emotion identifiers and are in the audio-event vocabulary; the
\* other scanned tags add nothing to it and leave the emotion what the
\* emotion tags alone make it.
C24_EventListInOrder ==
    parsed # <<>> =>
        LET s  == parsed[1].input
            ev == SpansInOrder(EventSpans(s))
        IN  /\ parsed[1].audio_events =
                  [ k \in 1..Len(ev) |-> lower(TagName(s, ev[k])) ]
            /\ parsed[1].emotion =
                  IF EmotionSpans(s) = {} THEN NEUTRAL
                  ELSE TagName(s, LastSpan(EmotionSpans(s)))

\* C24 witness: the same event tag twice and a language tag in one input
C24_Witness ==
    /\ parsed # <<>>
    /\ parsed[1].audio_events =
          << << "l","a","u","g","h","t","e","r" >>, << "l","a","u","g","h","t","e","r" >> >>
    /\ \E t \in TagSpans(parsed[1].input) : TagName(parsed[1].input, t) = << "E","N" >>

-----------------------------------------------------------------------------
(* Ready is stable (specification SpecSlots) *)

\* C25: a backend slot that is Ready (is_loaded() is true) is Ready in every
\* later state, whatever load calls and requests follow, a load call that
\* raises included.
C25_ReadyStaysReady ==
    [][ \A b \in Backends : is_loaded(instance[b]) => is_loaded(instance'[b]) ]_vars

\* C25 witness: the translator was loaded by its first load call, and a
\* second load call replaced the tokenizer and raised before the model
C25_Witness ==
    /\ built["translator"] = 2
    /\ instance["translator"].model = 1
    /\ instance["translator"].tokenizer = 2
    /\ is_loaded(instance["translator"])

-----------------------------------------------------------------------------
(* Load attempts of a request (specification Spec) *)

\* C26, as claimed: a request that needs a backend slot which is not loaded
\* makes exactly one load attempt for that slot: /analyze, once its upload
\* is stored, for the unified analyzer when unified mode is configured and
\* the analyzer is not loaded; /translate, and /analyze when it comes to
\* translate, for the translator.  In the code /analyze never calls
\* sensevoice_analyzer.load_model: line 224 sends the request to the legacy
\* branch.
C26_OneLoadAttemptPerRequest ==
    [][ last_response' # last_response =>
          LET r == last_response'[1]
          IN  /\ ( /\ r.endpoint = "analyze"
                   /\ r.detail \notin UploadDetails
                   /\ USE_SENSEVOICE
                   /\ sensevoice_analyzer.handle
                   /\ ~sensevoice_analyzer.loaded )
                  => Occurrences(r.calls, "sensevoice_analyzer.load_model") = 1
              /\ ( /\ r.endpoint = "translate"
                   /\ translator.handle
                   /\ ~translator.loaded )
                  => Occurrences(r.calls, "translator.load_model") = 1
              /\ ( /\ r.endpoint = "analyze"
                   /\ "translator.translate" \in Elements(r.calls)
                   /\ ~translator.loaded )
                  => Occurrences(r.calls, "translator.load_model") = 1 ]_vars

-----------------------------------------------------------------------------
(* What the parser removes (specification SpecAnalyzer) *)

\* the first n characters of s without the positions covered by a span of S
RECURSIVE WithoutSpans(_, _, _)
WithoutSpans(s, S, n) ==
    IF n = 0 THEN <<>>
    ELSE WithoutSpans(s, S, n - 1)
           \o (IF \E t \in S : t[1] <= n /\ n <= t[2] THEN <<>> ELSE << s[n] >>)

\* C27: the clean text is the input without the occurrences of the scan
\* grammar (the tags the scan step classified), trimmed: nothing else is
\* removed.  The code removes every <|...|> without a bar inside, scanned or
\* not.
C27_RemovesOnlyScannedTags ==
    parsed # <<>> =>
        parsed[1].clean_text
          = strip(WithoutSpans(parsed[1].input, TagSpans(parsed[1].input),
                               Len(parsed[1].input)))

\* an /analyze answer whose request came to the on-demand load of the
\* fan-out: it carries translations of a text that is not blank, or it
\* failed in that load
ReachedFanOutLoad(r) ==
    /\ r.endpoint = "analyze"
    /\ \/ r.detail = "Analysis failed: translator load"
       \/ /\ r.status = 200
          /\ r.translations # None
          /\ strip(r.transcription[1].text) # <<>>

\* C26, amended: a request makes exactly one load attempt for the
\* translator when it needs it and it is not loaded, on /translate and on
\* /analyze with translate_to, and none when it is loaded; no request makes
\* more than one load attempt, and /analyze makes no load attempt for the
\* unified analyzer, loaded or not.
C26_OneLoadForTranslatorOnly ==
    [][ last_response' # last_response =>
          LET r     == last_response'[1]
              loads == Occurrences(r.calls, "translator.load_model")
          IN  /\ Occurrences(r.calls, "sensevoice_analyzer.load_model") = 0
              /\ loads <= 1
              /\ (r.endpoint = "translate" /\ translator.handle)
                    => loads = (IF translator.loaded THEN 0 ELSE 1)
              /\ ReachedFanOutLoad(r)
                    => loads = (IF translator.loaded THEN 0 ELSE 1) ]_vars

\* C26 witness: an /analyze request on the unified path came to translate
\* with the translator not loaded, and its one load attempt raised
C26_Witness ==
    /\ AnalyzeAnswered
    /\ last_response[1].status = 500
    /\ last_response[1].calls = << "sensevoice_analyzer.analyze", "translator.load_model" >>
    /\ ~translator.loaded

-----------------------------------------------------------------------------
(* The key set of the synthesized distribution (specification SpecAnalyzer) *)

\* the registry emotions other than the UNKNOWN sentinel, lowercased
SevenKeys == { lower(e) : e \in (DOMAIN EMOTION_DISPLAY) \ { UNKNOWN } }

\* the keys of a distribution that carry the value v
KeysAt(probs, v) == { k \in DOMAIN probs : probs[k] = v }

\* C28, as claimed: for every non-empty result the key set of the
\* distribution is the seven registry emotions other than Unknown, one key
\* at 0.85 and six at 0.05, whichever identifier was resolved.
C28_SevenKeysAlways ==
    (analysis # <<>> /\ model_result # <<>>) =>
        LET probs == analysis[1].emotion.all_probabilities
        IN  /\ DOMAIN probs = SevenKeys
            /\ Cardinality(KeysAt(probs, HIGH_CONFIDENCE)) = 1
            /\ Cardinality(KeysAt(probs, RESIDUAL)) = 6

\* C28, amended: for every non-empty result the key set is the seven
\* registry emotions other than Unknown together with the resolved one; the
\* resolved key alone is at 0.85 and every other key at 0.05.  That is one
\* key at 0.85 and six at 0.05 for a resolved emotion other than UNKNOWN,
\* and the key unknown at 0.85 with seven keys at 0.05 for a resolved
\* UNKNOWN tag.
C28_SevenKeysAndResolved ==
    (analysis # <<>> /\ model_result # <<>>) =>
        LET probs    == analysis[1].emotion.all_probabilities
            resolved == analysis[1].emotion.raw_label
        IN  /\ DOMAIN probs = SevenKeys \cup { resolved }
            /\ KeysAt(probs, HIGH_CONFIDENCE) = { resolved }
            /\ KeysAt(probs, RESIDUAL) = (DOMAIN probs) \ { resolved }
            /\ resolved # lower(UNKNOWN) =>
                  /\ DOMAIN probs = SevenKeys
                  /\ Cardinality(KeysAt(probs, RESIDUAL)) = 6
            /\ resolved = lower(UNKNOWN) =>
                  /\ Cardinality(DOMAIN probs) = 8
                  /\ Cardinality(KeysAt(probs, RESIDUAL)) = 7

\* C28 witness: the result for a model output whose last emotion tag is
\* <|UNKNOWN|>
C28_Witness ==
    /\ analysis # <<>>
    /\ model_result # <<>>
    /\ parsed # <<>>
    /\ parsed[1].emotion = UNKNOWN
    /\ analysis[1].emotion.raw_label = lower(UNKNOWN)
    /\ Cardinality(DOMAIN analysis[1].emotion.all_probabilities) = 8

-----------------------------------------------------------------------------
(* Claims about the AudioRecorder (specification SpecRecorder) *)

\* the streams that are open: constructed, started or not, and not closed
OpenStreams == { s \in StreamIds : streams[s] \in { "open", "active" } }

\* the last call was stop_recording and it has returned
StopReturned == rpc = "idle" /\ ret # <<>>

\* stop_recording has read audio_data for the value it returns
SnapshotTaken == rpc = "stop_write" \/ StopReturned

\* the chunks of a list that were captured since the last start_recording
ThisSession(chunks) == SelectSeq(chunks, LAMBDA c : c.session = session)

\* C29: whatever start_recording and stop_recording calls are made, at most
\* one stream is open at any time, and once stop_recording has returned no
\* stream the recorder opened is still open.  In the code start_recording
\* assigns the new stream over _stream without closing the one it named.
C29_AtMostOneStreamOpen ==
    /\ Cardinality(OpenStreams) <= 1
    /\ StopReturned => OpenStreams = {}

\* C23: once stop_recording has returned, it returned None exactly when no
\* chunk was captured since the last start_recording, and otherwise a file
\* with exactly the chunks captured since the last start_recording, in the
\* order of their capture and with no chunk of an earlier session.
C23_FileHoldsThisSession ==
    StopReturned =>
        IF ret[1] = "None"
        THEN ThisSession(audio_data) = <<>>
        ELSE /\ ret[2] # <<>>
             /\ \A k \in 1..Len(ret[2]) : ret[2][k].session = session
             /\ \A k, l \in 1..Len(ret[2]) : k < l => ret[2][k].n < ret[2][l].n
             /\ ret[2] = ThisSession(audio_data)

\* C30: a chunk is appended to audio_data only while recording is set and
\* not after stop_recording has read audio_data for its file, and every
\* append, reset and read of audio_data is made by the thread that holds the
\* lock.  In the code the callback reads recording before it takes the lock.
C30_AppendOnlyWhileRecording ==
    [][ /\ Len(audio_data') > Len(audio_data) => (recording /\ ~SnapshotTaken)
        /\ audio_data' # audio_data => _lock # None
        /\ (rpc = "stop_locked" \/ rpc = "start_locked") => _lock = Some(MainThread)
      ]_vars

====
